---- MODULE Spec2Model ----
(***************************************************************************)
(* Model of try-ink: the interactive directory selector (Selector and its *)
(* confirm dialogs), the ranking behind it, and the caller that turns the  *)
(* selector's result into file-system effects and hook runs.               *)
(*                                                                         *)
(* Strings the program edits character by character are sequences of      *)
(* one-character strings.  Scores are integers in thousandths.             *)
(***************************************************************************)
EXTENDS Integers, Sequences, FiniteSets, TLC

\* ------------------------------------------------------------------ bounds

\* Longest query a typed character may extend (insertions stop there).
MaxQuery == 2

\* Longest promote target a typed character may extend.
MaxInput == 2

\* ------------------------------------------------------- strings as sequences


IsSpace(c) == c = " "

\* String.prototype.toLowerCase, one character
LowerChar(c) == IF c = "Q" THEN "q" ELSE IF c = "N" THEN "n" ELSE IF c = "Y" THEN "y" ELSE c

ToLowerCase(s) == [i \in 1..Len(s) |-> LowerChar(s[i])]

IsUpperChar(c) == LowerChar(c) # c

\* s.slice(from, to) with 0-based, end-exclusive JavaScript indices
Slice(s, from, to) == SubSeq(s, from + 1, to)

\* s.slice(from)
SliceFrom(s, from) == SubSeq(s, from + 1, Len(s))

\* String.prototype.trim
RECURSIVE TrimStart(_)
TrimStart(s) == IF s # <<>> /\ IsSpace(Head(s)) THEN TrimStart(Tail(s)) ELSE s

RECURSIVE TrimEnd(_)
TrimEnd(s) == IF s # <<>> /\ IsSpace(s[Len(s)]) THEN TrimEnd(SubSeq(s, 1, Len(s) - 1)) ELSE s

Trim(s) == TrimEnd(TrimStart(s))

Min(a, b) == IF a < b THEN a ELSE b
Max(a, b) == IF a > b THEN a ELSE b

\* The value JavaScript's % yields for a zero divisor, kept apart from every index.
NaN == -2

\* a % b for a >= 0, as the cursor arithmetic uses it
JsMod(a, b) == IF a = NaN \/ b = 0 THEN NaN ELSE a % b

JsAdd(a, b) == IF a = NaN THEN NaN ELSE a + b

\* a < b, false when a is NaN
JsLess(a, b) == a # NaN /\ a < b

\* ------------------------------------------------------------------ scoring

\* An entry of the tries path: its name, the hours since it was last modified
\* (modifiedAt) and the hours since it was last read (accessedAt).
Entry(name, hours, accessed) == [name |-> name, hours |-> hours, accessed |-> accessed]

\* The directories of the tries path.
Dirs ==
    << Entry(<<"q">>, 5, 0), Entry(<<"j">>, 1, 30), Entry(<<"a", "q">>, 30, 1) >>

DigitChars == <<"0", "1", "2", "3", "4", "5", "6", "7", "8", "9">>

IsDigit(c) == \E i \in 1..10 : DigitChars[i] = c

\* String(n) for n >= 0
RECURSIVE ToDigits(_)
ToDigits(n) ==
    IF n < 10 THEN <<DigitChars[n + 1]>>
    ELSE ToDigits(n \div 10) \o <<DigitChars[(n % 10) + 1]>>

\* s.padStart(2, "0")
PadStart2(s) == IF Len(s) < 2 THEN <<"0">> \o s ELSE s

\* todayPrefix() on the day date: `${year}-${month}-${day}`
TodayPrefixOf(date) ==
    ToDigits(date.year) \o <<"-">> \o PadStart2(ToDigits(date.month))
        \o <<"-">> \o PadStart2(ToDigits(date.day))

\* The day the selector runs on.
Today == [year |-> 2026, month |-> 11, day |-> 4]

TodayPrefix == TodayPrefixOf(Today)

AlnumChars ==
    {"a", "e", "h", "i", "j", "k", "l", "n", "q", "t", "x", "y"}
        \cup {DigitChars[i] : i \in 1..10}

\* A time score without the square root: a faulty variant, ruled out by C17.
CalculateTimeScoreNoRoot(hours) == Min(1000, 1000 \div Max(1, hours + 1))

\* calculateTimeScore: min(1, 3.0 / sqrt(hours + 1) / 3.0), in thousandths
\* (floor).  hours is negative for a modification time later than now:
\* Math.sqrt of a negative number is NaN and Math.min(1, NaN) is NaN, and at
\* hours = -1 the division by zero gives Infinity and the minimum 1.
CalculateTimeScore(hours) ==
    IF hours + 1 < 0 THEN NaN
    ELSE IF hours + 1 = 0 THEN 1000
    ELSE Min(1000, CHOOSE s \in 0..1000 :
                      /\ s * s * (hours + 1) <= 1000000
                      /\ (s + 1) * (s + 1) * (hours + 1) > 1000000)

\* The ages in hours the entries looked at have.
Hours == {0, 1, 5, 24, 30, 168}

\* The ages of entries modified later than now: (now - modified) is negative.
FutureHours == {-1, -2, -30}

\* The time score of every age, computed once.
TimeScoreOf == [h \in Hours \cup FutureHours |-> CalculateTimeScore(h)]

\* fuzzyScore * 0.7 + timeScore * 0.3, NaN when the time score is
JsWeighted(a, wa, b, wb) == IF a = NaN \/ b = NaN THEN NaN ELSE (a * wa + b * wb) \div 10

\* calculateTimeScore(entry.modifiedAt)
TimeScore(entry) == TimeScoreOf[entry.hours]

\* Stable insertion of x behind every element that does not rank below it
\* (Array.prototype.sort with (a, b) => b.score - a.score is stable).
RECURSIVE InsertDesc(_, _)
InsertDesc(x, sorted) ==
    IF sorted = <<>> THEN <<x>>
    ELSE IF Head(sorted).rank >= x.rank THEN <<Head(sorted)>> \o InsertDesc(x, Tail(sorted))
    ELSE <<x>> \o sorted

RECURSIVE SortDesc(_)
SortDesc(s) ==
    IF s = <<>> THEN <<>>
    ELSE InsertDesc(s[Len(s)], SortDesc(SubSeq(s, 1, Len(s) - 1)))

\* fzf smart case: a query with an upper-case letter matches case-sensitively.
SmartCase(name, q) ==
    IF \E i \in 1..Len(q) : IsUpperChar(q[i]) THEN name ELSE ToLowerCase(name)

\* Positions of the leftmost subsequence match of q in name from position from,
\* <<>> when q is empty, <<0>> when there is none.
RECURSIVE MatchPositions(_, _, _)
MatchPositions(name, q, from) ==
    IF q = <<>> THEN <<>>
    ELSE IF from > Len(name) THEN <<0>>
    ELSE IF name[from] = Head(q)
         THEN LET rest == MatchPositions(name, Tail(q), from + 1)
              IN  IF rest = <<0>> THEN <<0>> ELSE <<from>> \o rest
         ELSE MatchPositions(name, q, from + 1)

FzfPositions(name, q) == MatchPositions(SmartCase(name, q), q, 1)

\* A match that needs the whole name to be the query: a faulty variant, ruled
\* out by C14.
FzfMatchesWholeName(name, q) == SmartCase(name, q) = q

FzfMatches(name, q) == FzfPositions(name, q) # <<0>>

\* The match score of fzf: 16 a matched character, a bonus for a match at the
\* start of the name, a penalty for each skipped character inside the match.
FzfScore(name, q) ==
    LET pos == FzfPositions(name, q)
    IN  16 * Len(q)
        + (IF pos[1] = 1 THEN 8 ELSE 0)
        - ((pos[Len(pos)] - pos[1] + 1) - Len(q))

\* new Fzf(entries, {selector: name}).find(query): the matching entries, best
\* fzf score first, equal scores in input order.
FzfFind(entries, q) ==
    LET hits == SelectSeq(entries, LAMBDA e : FzfMatches(e.name, q))
        ranked == [i \in 1..Len(hits) |->
                     [item |-> hits[i], rank |-> FzfScore(hits[i].name, q),
                      positions |-> FzfPositions(hits[i].name, q)]]
    IN  SortDesc(ranked)

\* The empty-query branch without its sort: a faulty variant, ruled out by C15.
ScoreByTimeUnsorted(entries) ==
    [i \in 1..Len(entries) |->
        [name |-> entries[i].name, hours |-> entries[i].hours,
         accessed |-> entries[i].accessed,
         score |-> TimeScore(entries[i]), fuzzyScore |-> 1000,
         timeScore |-> TimeScore(entries[i]), matchedIndices |-> <<>>,
         rank |-> TimeScore(entries[i])]]

\* scoreEntries, the empty-query branch: every entry, by time score.
ScoreByTime(entries) ==
    LET scored == [i \in 1..Len(entries) |->
                     [name |-> entries[i].name, hours |-> entries[i].hours,
                      accessed |-> entries[i].accessed,
                      score |-> TimeScore(entries[i]), fuzzyScore |-> 1000,
                      timeScore |-> TimeScore(entries[i]), matchedIndices |-> <<>>,
                      rank |-> TimeScore(entries[i])]]
    IN  SortDesc(scored)

\* The query branch with the two weights exchanged: a faulty variant, ruled out
\* by C16.
ScoreByFzfSwappedWeights(entries, query) ==
    LET results == FzfFind(entries, query)
    IN  [i \in 1..Len(results) |->
           LET fuzzyScore == Min(1000, (results[i].rank * 1000) \div 100)
               timeScore == TimeScore(results[i].item)
           IN  [name |-> results[i].item.name, hours |-> results[i].item.hours,
                accessed |-> results[i].item.accessed,
                score |-> JsWeighted(fuzzyScore, 3, timeScore, 7),
                fuzzyScore |-> fuzzyScore, timeScore |-> timeScore,
                matchedIndices |-> [j \in 1..Len(results[i].positions) |->
                                      results[i].positions[j] - 1],
                rank |-> results[i].rank]]

\* scoreEntries, the query branch: the fzf results in fzf's order, each with
\* score = fuzzyScore * 0.7 + timeScore * 0.3.
ScoreByFzf(entries, query) ==
    LET results == FzfFind(entries, query)
    IN  [i \in 1..Len(results) |->
           LET fuzzyScore == Min(1000, (results[i].rank * 1000) \div 100)
               timeScore == TimeScore(results[i].item)
           IN  [name |-> results[i].item.name, hours |-> results[i].item.hours,
                accessed |-> results[i].item.accessed,
                score |-> JsWeighted(fuzzyScore, 7, timeScore, 3),
                fuzzyScore |-> fuzzyScore, timeScore |-> timeScore,
                matchedIndices |-> [j \in 1..Len(results[i].positions) |->
                                      results[i].positions[j] - 1],
                rank |-> results[i].rank]]

ScoreEntries(entries, query) ==
    IF Trim(query) = <<>> THEN ScoreByTime(entries) ELSE ScoreByFzf(entries, query)

\* A replacement of every character outside [a-z0-9] by its own hyphen: a
\* faulty variant, ruled out by C18.
ReplaceEach(s, inRun) ==
    [i \in 1..Len(s) |-> IF s[i] \in AlnumChars THEN s[i] ELSE "-"]

\* normalizeName: lower-case, runs outside [a-z0-9] to one hyphen, hyphens
\* stripped from both ends.
RECURSIVE ReplaceRuns(_, _)
ReplaceRuns(s, inRun) ==
    IF s = <<>> THEN <<>>
    ELSE IF Head(s) \in AlnumChars THEN <<Head(s)>> \o ReplaceRuns(Tail(s), FALSE)
    ELSE IF inRun THEN ReplaceRuns(Tail(s), TRUE)
    ELSE <<"-">> \o ReplaceRuns(Tail(s), TRUE)

RECURSIVE StripHyphens(_)
StripHyphens(s) ==
    IF s # <<>> /\ Head(s) = "-" THEN StripHyphens(Tail(s))
    ELSE IF s # <<>> /\ s[Len(s)] = "-" THEN StripHyphens(SubSeq(s, 1, Len(s) - 1))
    ELSE s

NormalizeName(name) == StripHyphens(ReplaceRuns(ToLowerCase(name), FALSE))

\* createDirName called on the day date
CreateDirNameOn(date, name) ==
    LET normalized == NormalizeName(name)
        prefix == TodayPrefixOf(date)
    IN  IF normalized # <<>> THEN prefix \o <<"-">> \o normalized ELSE prefix

CreateDirName(name) == CreateDirNameOn(Today, name)

\* ^\d{4}-\d{2}-\d{2} matches at the start of name
HasDatePrefix(name) ==
    /\ Len(name) >= 10
    /\ \A i \in 1..10 : IF i \in {5, 8} THEN name[i] = "-" ELSE IsDigit(name[i])

\* (.*)$ matches s: the dot matches no line terminator
IsOneLine(s) == \A i \in 1..Len(s) : s[i] # "\n"

\* parseDatePrefix without the fallback of baseName to the name: a faulty
\* variant, ruled out by C19.
ParseDatePrefixNoFallback(name) ==
    IF HasDatePrefix(name) /\ IsOneLine(SliceFrom(name, 10))
    THEN LET afterDate == SliceFrom(name, 10)
             rest == IF afterDate # <<>> /\ Head(afterDate) = "-"
                     THEN Tail(afterDate) ELSE afterDate
         IN  [datePrefix |-> Slice(name, 0, 10), baseName |-> rest]
    ELSE [datePrefix |-> <<>>, baseName |-> name]

\* parseDatePrefix: name.match(/^(\d{4}-\d{2}-\d{2})-?(.*)$/); an absent
\* datePrefix is the empty sequence.
ParseDatePrefix(name) ==
    IF HasDatePrefix(name) /\ IsOneLine(SliceFrom(name, 10))
    THEN LET afterDate == SliceFrom(name, 10)
             rest == IF afterDate # <<>> /\ Head(afterDate) = "-"
                     THEN Tail(afterDate) ELSE afterDate
         IN  [datePrefix |-> Slice(name, 0, 10),
              baseName |-> IF rest # <<>> THEN rest ELSE name]
    ELSE [datePrefix |-> <<>>, baseName |-> name]

\* ------------------------------------------------------------------ keys

\* A keystroke as Ink hands it to a useInput handler: the input text, the ctrl
\* flag and the name of the special key ("" for none).
Key(input, ctrl, name) == [input |-> input, ctrl |-> ctrl, name |-> name]

SpecialKeys ==
    {Key("", FALSE, n) : n \in {"up", "down", "left", "right", "return", "escape", "backspace"}}

CtrlKeys ==
    {Key(c, TRUE, "") : c \in {"n", "p", "d", "o", "a", "r", "y", "h", "c", "e", "k", "u", "w"}}

\* The printable characters typed into the search box.
SearchChars == {"j", "q", "Q", " "}

\* The printable characters typed into the yes/no dialogs.
ConfirmChars == {"y", "N", "a", "q"}

\* The printable characters typed into the promote dialog.
PromoteChars == {"a", " "}

SearchKeys == SpecialKeys \cup CtrlKeys \cup {Key(c, FALSE, "") : c \in SearchChars}

ConfirmKeys == SpecialKeys \cup CtrlKeys \cup {Key(c, FALSE, "") : c \in ConfirmChars}

PromoteKeys == SpecialKeys \cup CtrlKeys \cup {Key(c, FALSE, "") : c \in PromoteChars}

NoKey == Key("", FALSE, "none")

\* A key that puts a character into a line buffer.
IsPrintable(k) == ~k.ctrl /\ k.input # ""

\* A line buffer after key k: a printable character is appended, backspace
\* takes the last one away.
TypedAfter(k, buffer) ==
    IF IsPrintable(k) THEN Append(buffer, k.input)
    ELSE IF k.name = "backspace" /\ buffer # <<>> THEN SubSeq(buffer, 1, Len(buffer) - 1)
    ELSE buffer

\* ------------------------------------------------------------------ state

VARIABLES
    entries,        \* Selector: loadTries(config), read once
    query,          \* Selector: useState(initialQuery)
    selectedIndex,  \* Selector: useState(0)
    mode,           \* Selector: "search" | "delete" | "archive" | "promote"
    deleteTarget,   \* Selector: name of the entry to delete, or Null
    archiveTarget,  \* Selector: name of the entry to archive, or Null
    promoteTarget,  \* Selector: name of the entry to promote, or Null
    cursorPos,      \* SearchInput: text cursor in the query
    selected,       \* DeleteConfirm: the highlighted button
    input,          \* PromoteConfirm: the edited target path
    inputCursor,    \* PromoteConfirm: text cursor in the target path (cursorPos)
    mounted,        \* runSelector: the Selector is rendered and reads keys
    result,         \* runSelector: the value the promise resolved with
    lastKey,        \* the keystroke handled last
    fired,          \* the dialog callbacks the last keystroke called, in order
    emitted,        \* the results the last keystroke passed to onResult, in order
    typed,          \* the text typed into the delete dialog since it opened
    dropped,        \* the last key cancelled a dialog that held edits, or reopened one after
    config,         \* loadConfig(): for each hook, "script" when a command is configured
    pc,             \* main: where the caller stands
    hook,           \* executeCallback: the hook whose process is running, or "none"
    cont,           \* the step of the caller that awaits the running hook
    hookResult,     \* the CallbackResult the last executeCallback returned
    hookRuns,       \* every executeCallback call so far: hook and result, in order
    fs,             \* the directories that exist under the tries path
    touched,        \* the directories whose times touchTryDir has set to now
    stdout,         \* the lines written to standard output
    stderr,         \* the lines the caller wrote to standard error
    exited,         \* the process has ended
    exitCode,       \* the status it ended with
    component,      \* the dialog component mounted on its own, or "none"
    dialogEntry,    \* its props: the name of the entry (entry.name)
    hasClaudeProjects,      \* its props: the entry has a projects folder
    phase,          \* the dialog's phase: "name" / "path", then "claude-confirm"
    pending,        \* pendingNewName / pendingTargetPath
    renameClaudeProjects,   \* RenameConfirm: the Tab toggle
    calls,          \* the callbacks the dialog has called, with their arguments
    actions,        \* InitActions: its props, the init actions in the order of their keys
    selectedKeys,   \* InitActions: the keys selected, in the order they were added
    cursorIndex,    \* InitActions: the row of the cursor, from 0
    initRuns,       \* runInitActions: every runInitAction call so far: key and state
    call,           \* the function called last, with its arguments
    ret             \* the value it returned

uiVars == <<entries, query, selectedIndex, mode, deleteTarget, archiveTarget,
            promoteTarget, cursorPos, selected, input, inputCursor, mounted,
            result, lastKey, fired, emitted, typed, dropped>>

cliVars == <<config, pc, hook, cont, hookResult, hookRuns, fs, touched, stdout,
             stderr, exited, exitCode>>

\* The state of the dialogs mounted on their own and of the function calls.
harnessVars == <<component, dialogEntry, hasClaudeProjects, phase, pending,
                 renameClaudeProjects, calls, actions, selectedKeys, cursorIndex,
                 initRuns, call, ret>>

Null == <<>>

Result(action, entry, arg) == [action |-> action, entry |-> entry, arg |-> arg]

NoResult == Result("none", Null, <<>>)

\* The runs looked at: the directories found and the query the command line
\* pre-fills (args.join(" ")).
Runs ==
    { [entries |-> <<>>, initialQuery |-> <<>>, callbacks |-> "none"],
      [entries |-> Dirs, initialQuery |-> <<>>, callbacks |-> "none"],
      [entries |-> Dirs, initialQuery |-> <<>>, callbacks |-> "script"],
      [entries |-> Dirs, initialQuery |-> <<>>, callbacks |-> "~/m"],
      [entries |-> Dirs, initialQuery |-> <<"e", "x", "i", "t">>, callbacks |-> "none"] }

\* ------------------------------------------------------------ Selector (derived)

scoredEntries == ScoreEntries(entries, query)

showCreateOption == Len(Trim(query)) > 0

totalItems == Len(scoredEntries) + (IF showCreateOption THEN 1 ELSE 0)

createNewIndex == IF showCreateOption THEN Len(scoredEntries) ELSE -1

\* selectedIndex < scoredEntries.length && scoredEntries.length > 0
OnEntryRow == JsLess(selectedIndex, Len(scoredEntries)) /\ Len(scoredEntries) > 0

\* scoredEntries[selectedIndex]
EntryAtCursor == scoredEntries[selectedIndex + 1].name

\* getDefaultPromoteTarget: path.join(dirname(triesPath), entry.baseName)
GetDefaultPromoteTarget(name) == <<"/">> \o name

\* ------------------------------------------------------------ SearchInput

\* The shortest prefix of s whose remainder matches \s*\S*$: match[1] of
\* beforeCursor.match(/^(.*?)(\s*\S*)$/).
WordStart(s) ==
    CHOOSE i \in 0..Len(s) :
        /\ \A j, k \in (i + 1)..Len(s) : j < k => ~(~IsSpace(s[j]) /\ IsSpace(s[k]))
        /\ \A h \in 0..(i - 1) :
              \E j, k \in (h + 1)..Len(s) : j < k /\ ~IsSpace(s[j]) /\ IsSpace(s[k])

Edit(called, value, pos) == [called |-> called, value |-> value, cursorPos |-> pos]

\* The useInput handler of SearchInput on value with the text cursor at pos:
\* whether onChange was called, the value passed to it, the cursor it sets.
SearchInputKey(k, value, pos) ==
    IF k.name = "backspace" \/ (k.ctrl /\ k.input = "h") THEN
        IF pos > 0
        THEN Edit(TRUE, Slice(value, 0, pos - 1) \o SliceFrom(value, pos), pos - 1)
        ELSE Edit(FALSE, value, pos)
    ELSE IF k.ctrl /\ k.input = "a" THEN Edit(FALSE, value, 0)
    ELSE IF k.ctrl /\ k.input = "e" THEN Edit(FALSE, value, Len(value))
    ELSE IF (k.ctrl /\ k.input = "b") \/ k.name = "left" THEN Edit(FALSE, value, Max(0, pos - 1))
    ELSE IF (k.ctrl /\ k.input = "f") \/ k.name = "right"
        THEN Edit(FALSE, value, Min(Len(value), pos + 1))
    ELSE IF k.ctrl /\ k.input = "k" THEN Edit(TRUE, Slice(value, 0, pos), pos)
    ELSE IF k.ctrl /\ k.input = "u" THEN Edit(TRUE, SliceFrom(value, pos), 0)
    ELSE IF k.ctrl /\ k.input = "w" THEN
        LET newBefore == Slice(value, 0, WordStart(Slice(value, 0, pos)))
        IN  Edit(TRUE, newBefore \o SliceFrom(value, pos), Len(newBefore))
    ELSE IF ~k.ctrl /\ k.input # "" /\ k.name \notin {"return", "escape"}
        THEN Edit(TRUE, Slice(value, 0, pos) \o <<k.input>> \o SliceFrom(value, pos), pos + 1)
    ELSE Edit(FALSE, value, pos)

\* The effect that keeps the cursor inside the value after a render.
ClampCursor(pos, value) == IF pos > Len(value) THEN Len(value) ELSE pos

\* ------------------------------------------------------------ Selector (keys)

IsNextKey(k) == k.name = "down" \/ (k.ctrl /\ k.input = "n") \/ k.input = "j"

IsPrevKey(k) == k.name = "up" \/ (k.ctrl /\ k.input = "p") \/ k.input = "k"

\* The updater the Selector queues for selectedIndex on a navigation key,
\* applied to prev with the item count of the render that bound the handler.
NavUpdate(k, prev, total) ==
    IF IsNextKey(k) THEN JsMod(JsAdd(prev, 1), total)
    ELSE IF IsPrevKey(k) THEN JsMod(JsAdd(prev, total - 1), total)
    ELSE prev

\* The Enter branch without its exit-keyword test: a faulty variant, ruled out by C5.
ReturnResultNoExitWord ==
    IF selectedIndex = createNewIndex
        THEN Result("create", Null, CreateDirName(query))
    ELSE IF Len(scoredEntries) > 0 /\ JsLess(selectedIndex, Len(scoredEntries))
        THEN Result("select", EntryAtCursor, <<>>)
    ELSE NoResult

\* The Enter branch selecting the top row whatever the cursor: a faulty variant,
\* ruled out by C6.
ReturnResultTopRow ==
    LET trimmedQuery == ToLowerCase(Trim(query))
    IN  IF trimmedQuery = <<"e", "x", "i", "t">> \/ trimmedQuery = <<"q">>
            THEN Result("cancel", Null, <<>>)
        ELSE IF selectedIndex = createNewIndex
            THEN Result("create", Null, CreateDirName(query))
        ELSE IF Len(scoredEntries) > 0 /\ JsLess(selectedIndex, Len(scoredEntries))
            THEN Result("select", scoredEntries[1].name, <<>>)
        ELSE NoResult

\* The Enter branch creating under the normalized name without the date
\* prefix: a faulty variant, ruled out by C4.
ReturnResultNoDatePrefix ==
    LET trimmedQuery == ToLowerCase(Trim(query))
    IN  IF trimmedQuery = <<"e", "x", "i", "t">> \/ trimmedQuery = <<"q">>
            THEN Result("cancel", Null, <<>>)
        ELSE IF selectedIndex = createNewIndex
            THEN Result("create", Null, NormalizeName(query))
        ELSE IF Len(scoredEntries) > 0 /\ JsLess(selectedIndex, Len(scoredEntries))
            THEN Result("select", EntryAtCursor, <<>>)
        ELSE NoResult

\* What the Enter branch of the Selector passes to onResult.
ReturnResult ==
    LET trimmedQuery == ToLowerCase(Trim(query))
    IN  IF trimmedQuery = <<"e", "x", "i", "t">> \/ trimmedQuery = <<"q">>
            THEN Result("cancel", Null, <<>>)
        ELSE IF selectedIndex = createNewIndex
            THEN Result("create", Null, CreateDirName(query))
        ELSE IF Len(scoredEntries) > 0 /\ JsLess(selectedIndex, Len(scoredEntries))
            THEN Result("select", EntryAtCursor, <<>>)
        ELSE NoResult

\* The confirm mode a dedicated action key asks for, "search" for none.
RequestedMode(k) ==
    IF IsNextKey(k) \/ IsPrevKey(k) \/ k.name = "return" THEN "search"
    ELSE IF k.input = "d" /\ k.ctrl THEN "delete"
    ELSE IF k.input = "o" /\ k.ctrl THEN "promote"
    ELSE IF k.input = "a" /\ k.ctrl THEN "archive"
    ELSE "search"

\* The handler without its Ctrl-C test: a faulty variant, ruled out by C8.
SelectorResultEscapeOnly(k) ==
    IF IsNextKey(k) \/ IsPrevKey(k) THEN NoResult
    ELSE IF k.name = "return" THEN ReturnResult
    ELSE IF k.ctrl /\ k.input \in {"d", "o", "a", "y", "h"} THEN NoResult
    ELSE IF k.name = "escape" THEN Result("cancel", Null, <<>>)
    ELSE NoResult

\* What the useInput handler of the Selector passes to onResult for key k.
SelectorResult(k) ==
    IF IsNextKey(k) \/ IsPrevKey(k) THEN NoResult
    ELSE IF k.name = "return" THEN ReturnResult
    ELSE IF k.ctrl /\ k.input \in {"d", "o", "a", "y", "h"} THEN NoResult
    ELSE IF k.name = "escape" \/ (k.ctrl /\ k.input = "c") THEN Result("cancel", Null, <<>>)
    ELSE NoResult

\* onResult that hands every result to the caller and leaves the Selector
\* mounted: a faulty variant, ruled out by C33.
OnResultAsCallback(res) ==
    /\ mounted' = mounted
    /\ result' = res

\* onResult that resolves the promise and leaves the Selector mounted: a faulty
\* variant, ruled out by C23.
OnResultNoUnmount(res) ==
    /\ mounted' = mounted
    /\ result' = IF result = NoResult THEN res ELSE result

\* onResult of runSelector: unmount(), then resolve(result); a promise keeps
\* the first value it is resolved with.
OnResult(res) ==
    /\ mounted' = FALSE
    /\ result' = IF result = NoResult THEN res ELSE result

NoEmit ==
    /\ emitted' = <<>>
    /\ UNCHANGED <<mounted, result>>

Emit(res) ==
    IF res = NoResult THEN NoEmit
    ELSE /\ emitted' = <<res>>
         /\ OnResult(res)

\* One keystroke in search mode.  Ink hands it to the handlers of SearchInput
\* and of the Selector, both bound to the state of the last render; the
\* updates they queue for selectedIndex apply in the order the handlers ran.
KeySearch(k, inputFirst) ==
    /\ mounted /\ mode = "search"
    /\ k \in SearchKeys
    /\ LET edit == SearchInputKey(k, query, cursorPos)
           reset(i) == IF edit.called THEN 0 ELSE i
           move(i) == NavUpdate(k, i, totalItems)
           want == RequestedMode(k)
           enter == IF want # "search" /\ OnEntryRow THEN want ELSE "search"
       IN  /\ Len(edit.value) > Len(query) => Len(query) < MaxQuery
           /\ query' = edit.value
           /\ selectedIndex' = IF inputFirst THEN move(reset(selectedIndex))
                               ELSE reset(move(selectedIndex))
           /\ mode' = enter
           /\ deleteTarget' = IF enter = "delete" THEN EntryAtCursor ELSE deleteTarget
           /\ archiveTarget' = IF enter = "archive" THEN EntryAtCursor ELSE archiveTarget
           /\ promoteTarget' = IF enter = "promote" THEN EntryAtCursor ELSE promoteTarget
           /\ cursorPos' = IF enter = "search" THEN ClampCursor(edit.cursorPos, edit.value)
                           ELSE Len(edit.value)
           /\ selected' = "cancel"
           /\ input' = IF enter = "promote" THEN GetDefaultPromoteTarget(EntryAtCursor) ELSE <<>>
           /\ inputCursor' = IF enter = "promote"
                             THEN Len(GetDefaultPromoteTarget(EntryAtCursor)) ELSE 0
           /\ Emit(SelectorResult(k))
    /\ lastKey' = k
    /\ fired' = <<>>
    /\ typed' = <<>>
    /\ dropped' = (dropped /\ mode' # "search")
    /\ UNCHANGED entries
    /\ UNCHANGED cliVars
    /\ UNCHANGED harnessVars

\* ------------------------------------------------------------ confirm dialogs

\* Closing a dialog without clearing its target: a faulty variant, ruled out
\* by C34.
CloseDialogKeepsTarget ==
    /\ mode' = "search"
    /\ UNCHANGED <<deleteTarget, archiveTarget, promoteTarget>>
    /\ selected' = "cancel"
    /\ input' = <<>>
    /\ inputCursor' = 0
    /\ cursorPos' = Len(query)

\* The dialog is closed: mode and target are reset, SearchInput is mounted
\* again with its cursor at the end of the query.
CloseDialog ==
    /\ mode' = "search"
    /\ deleteTarget' = IF mode = "delete" THEN Null ELSE deleteTarget
    /\ archiveTarget' = IF mode = "archive" THEN Null ELSE archiveTarget
    /\ promoteTarget' = IF mode = "promote" THEN Null ELSE promoteTarget
    /\ selected' = "cancel"
    /\ input' = <<>>
    /\ inputCursor' = 0
    /\ cursorPos' = Len(query)

StayInDialog ==
    /\ UNCHANGED <<mode, deleteTarget, archiveTarget, promoteTarget, cursorPos>>

\* The open dialog holds edits: a moved highlight or a changed target path.
HoldsEdits ==
    \/ mode = "delete" /\ selected # "cancel"
    \/ mode = "promote" /\ input # GetDefaultPromoteTarget(promoteTarget)

\* A cancel handler that ends the session with Cancel: a faulty variant, ruled
\* out by C10.
HandleCancelEndsSession ==
    /\ CloseDialog
    /\ Emit(Result("cancel", Null, <<>>))
    /\ fired' = <<"onCancel">>

\* A cancel handler that leaves the dialog open: a faulty variant, ruled out by
\* C38.
HandleCancelStays ==
    /\ StayInDialog
    /\ NoEmit
    /\ fired' = <<"onCancel">>
    /\ UNCHANGED <<selected, input, inputCursor>>

\* handleDeleteCancel, handleArchiveCancel, handlePromoteCancel
HandleCancel ==
    /\ CloseDialog
    /\ NoEmit
    /\ fired' = <<"onCancel">>

\* handleDeleteConfirm, handleArchiveConfirm, handlePromoteConfirm(targetPath)
HandleConfirm(action, target, arg) ==
    /\ IF target # Null THEN Emit(Result(action, target, arg)) ELSE NoEmit
    /\ CloseDialog
    /\ fired' = <<"onConfirm">>

\* What the useInput handler of DeleteConfirm does with key k:
\* "cancel", "confirm", "toggle" or "none".
DeleteConfirmKey(k, sel) ==
    IF k.name = "escape" \/ k.input = "n" \/ k.input = "N" THEN "cancel"
    ELSE IF k.input = "y" \/ k.input = "Y" THEN "confirm"
    ELSE IF k.name = "left" \/ k.name = "right" \/ k.input = "h" \/ k.input = "l" THEN "toggle"
    ELSE IF k.name = "return" THEN (IF sel = "delete" THEN "confirm" ELSE "cancel")
    ELSE "none"

KeyDelete(k) ==
    /\ mounted /\ mode = "delete" /\ deleteTarget # Null
    /\ k \in ConfirmKeys
    /\ LET does == DeleteConfirmKey(k, selected)
       IN  CASE does = "cancel" -> HandleCancel
             [] does = "confirm" -> HandleConfirm("delete", deleteTarget, <<>>)
             [] does = "toggle" ->
                    /\ selected' = IF selected = "cancel" THEN "delete" ELSE "cancel"
                    /\ StayInDialog /\ NoEmit
                    /\ fired' = <<>>
                    /\ UNCHANGED <<input, inputCursor>>
             [] OTHER ->
                    /\ StayInDialog /\ NoEmit
                    /\ fired' = <<>>
                    /\ UNCHANGED <<selected, input, inputCursor>>
    /\ IsPrintable(k) => Len(typed) < MaxInput
    /\ typed' = IF mode' # "delete" THEN <<>> ELSE TypedAfter(k, typed)
    /\ dropped' = (fired' = <<"onCancel">> /\ HoldsEdits)
    /\ lastKey' = k
    /\ UNCHANGED <<entries, query, selectedIndex>>
    /\ UNCHANGED cliVars
    /\ UNCHANGED harnessVars

\* An ArchiveConfirm that confirms on every key but a cancelling one: a faulty
\* variant, ruled out by C36.
ArchiveConfirmKeyEager(k) ==
    IF k.name = "escape" \/ k.input = "n" \/ k.input = "N" THEN "cancel"
    ELSE "confirm"

\* The keys pressed in ArchiveConfirm: those of the other dialogs and the
\* answers in their other case.
ArchiveKeys == ConfirmKeys \cup {Key(c, FALSE, "") : c \in {"Y", "n"}}

\* What the useInput handler of ArchiveConfirm does with key k.
ArchiveConfirmKey(k) ==
    IF k.name = "escape" \/ k.input = "n" \/ k.input = "N" THEN "cancel"
    ELSE IF k.name = "return" \/ k.input = "y" \/ k.input = "Y" THEN "confirm"
    ELSE "none"

\* An ArchiveConfirm whose keys put the list cursor back on the first row: a
\* faulty variant, ruled out by C35.
KeyArchiveResetsCursor(k) ==
    /\ mounted /\ mode = "archive" /\ archiveTarget # Null
    /\ k \in ArchiveKeys
    /\ LET does == ArchiveConfirmKey(k)
       IN  CASE does = "cancel" -> HandleCancel
             [] does = "confirm" -> HandleConfirm("archive", archiveTarget, <<>>)
             [] OTHER ->
                    /\ StayInDialog /\ NoEmit
                    /\ fired' = <<>>
                    /\ UNCHANGED <<selected, input, inputCursor>>
    /\ dropped' = FALSE
    /\ lastKey' = k
    /\ selectedIndex' = 0
    /\ UNCHANGED <<entries, query, typed>>
    /\ UNCHANGED cliVars
    /\ UNCHANGED harnessVars

\* One keystroke in ArchiveConfirm.
KeyArchive(k) ==
    /\ mounted /\ mode = "archive" /\ archiveTarget # Null
    /\ k \in ArchiveKeys
    /\ LET does == ArchiveConfirmKey(k)
       IN  CASE does = "cancel" -> HandleCancel
             [] does = "confirm" -> HandleConfirm("archive", archiveTarget, <<>>)
             [] OTHER ->
                    /\ StayInDialog /\ NoEmit
                    /\ fired' = <<>>
                    /\ UNCHANGED <<selected, input, inputCursor>>
    /\ dropped' = FALSE
    /\ lastKey' = k
    /\ UNCHANGED <<entries, query, selectedIndex, typed>>
    /\ UNCHANGED cliVars
    /\ UNCHANGED harnessVars

\* Text pasted into the terminal reaches a useInput handler as one keystroke
\* whose input is the whole text.
PastedText == "ab"

\* The characters of the input of a keystroke: char, as slice and + see it.
KeyText(k) == IF k.input = PastedText THEN <<"a", "b">> ELSE <<k.input>>

\* The line editing of PromoteConfirm on value with the text cursor at pos.
PromoteEdit(k, value, pos) ==
    IF k.name = "backspace" THEN
        IF pos > 0
        THEN Edit(TRUE, Slice(value, 0, pos - 1) \o SliceFrom(value, pos), pos - 1)
        ELSE Edit(FALSE, value, pos)
    ELSE IF k.name = "left" THEN Edit(FALSE, value, Max(0, pos - 1))
    ELSE IF k.name = "right" THEN Edit(FALSE, value, Min(Len(value), pos + 1))
    ELSE IF k.ctrl /\ k.input = "a" THEN Edit(FALSE, value, 0)
    ELSE IF k.ctrl /\ k.input = "e" THEN Edit(FALSE, value, Len(value))
    ELSE IF k.ctrl /\ k.input = "k" THEN Edit(TRUE, Slice(value, 0, pos), pos)
    ELSE IF k.ctrl /\ k.input = "u" THEN Edit(TRUE, SliceFrom(value, pos), 0)
    ELSE IF k.input # "" /\ ~k.ctrl
        THEN Edit(TRUE, Slice(value, 0, pos) \o KeyText(k) \o SliceFrom(value, pos), pos + 1)
    ELSE Edit(FALSE, value, pos)

KeyPromote(k) ==
    /\ mounted /\ mode = "promote" /\ promoteTarget # Null
    /\ k \in PromoteKeys
    /\ IF k.name = "escape" THEN HandleCancel
       ELSE IF k.name = "return" THEN
            IF Trim(input) # <<>>
            THEN HandleConfirm("promote", promoteTarget, Trim(input))
            ELSE /\ StayInDialog /\ NoEmit
                 /\ fired' = <<>>
                 /\ UNCHANGED <<selected, input, inputCursor>>
       ELSE LET edit == PromoteEdit(k, input, inputCursor)
            IN  /\ Len(edit.value) > Len(input) => Len(input) < MaxInput
                /\ input' = edit.value
                /\ inputCursor' = edit.cursorPos
                /\ StayInDialog /\ NoEmit
                /\ fired' = <<>>
                /\ UNCHANGED selected
    /\ dropped' = (fired' = <<"onCancel">> /\ HoldsEdits)
    /\ lastKey' = k
    /\ UNCHANGED <<entries, query, selectedIndex, typed>>
    /\ UNCHANGED cliVars
    /\ UNCHANGED harnessVars


\* ------------------------------------------------- dialogs mounted on their own

\* The dialog components: PromoteConfirm and RenameConfirm, and the versions of
\* both that ask about the projects folder in a second phase.
Components == {"PromoteConfirm", "RenameConfirm", "PromoteTwoPhase", "RenameTwoPhase"}

\* The entries the dialogs are mounted for.
DialogEntries == {<<"a">>, <<"a", "q">>}

TabKey == Key("", FALSE, "tab")

\* The printable characters typed into the dialogs.
DialogChars == {" ", "y", "N"}

DialogKeys ==
    SpecialKeys \cup {TabKey}
        \cup {Key(c, TRUE, "") : c \in {"a", "e", "k", "u", "y"}}
        \cup {Key(c, FALSE, "") : c \in DialogChars \cup {PastedText}}

\* useState(defaultTarget) / useState(entry.name)
DialogDefault(c, name) ==
    IF c \in {"PromoteConfirm", "PromoteTwoPhase"} THEN GetDefaultPromoteTarget(name) ELSE name

\* A callback called by a dialog: onCancel(), onConfirm(value) or
\* onConfirm(value, flag); flag is FALSE where none is passed.
DialogCall(fn, value, flag) == [fn |-> fn, value |-> value, flag |-> flag]

\* The callback is called; the parent closes the dialog on it, as the handlers
\* of the Selector do.
Calls(c) ==
    /\ calls' = Append(calls, c)
    /\ phase' = "closed"
    /\ UNCHANGED <<input, inputCursor, pending, renameClaudeProjects>>

\* A key the dialog ignores.
Ignored == UNCHANGED <<input, inputCursor, phase, pending, renameClaudeProjects, calls>>

\* The line editing shared by the dialogs.
EditInput(k) ==
    LET edit == PromoteEdit(k, input, inputCursor)
    IN  /\ Len(edit.value) > Len(input) => Len(input) < MaxInput
        /\ input' = edit.value
        /\ inputCursor' = edit.cursorPos
        /\ UNCHANGED <<phase, pending, renameClaudeProjects, calls>>

\* What a dialog key leaves alone.
DialogFrame(k) ==
    /\ lastKey' = k
    /\ UNCHANGED <<component, dialogEntry, hasClaudeProjects, call, ret>>
    /\ UNCHANGED <<actions, selectedKeys, cursorIndex, initRuns>>
    /\ UNCHANGED <<entries, query, selectedIndex, mode, deleteTarget, archiveTarget,
                   promoteTarget, cursorPos, selected, mounted, result, fired, emitted,
                   typed, dropped>>
    /\ UNCHANGED cliVars

\* The useInput handler of PromoteConfirm.
KeyPromoteConfirm(k) ==
    /\ component = "PromoteConfirm" /\ phase = "path"
    /\ k \in DialogKeys
    /\ IF k.name = "escape" THEN Calls(DialogCall("onCancel", <<>>, FALSE))
       ELSE IF k.name = "return" THEN
            IF Trim(input) # <<>>
            THEN Calls(DialogCall("onConfirm", Trim(input), FALSE))
            ELSE Ignored
       ELSE EditInput(k)
    /\ DialogFrame(k)

\* RenameConfirm confirming an unchanged name too: a faulty variant, ruled out
\* by C11.
KeyRenameConfirmUnchanged(k) ==
    /\ component = "RenameConfirm" /\ phase = "name"
    /\ k \in DialogKeys
    /\ IF k.name = "escape" THEN Calls(DialogCall("onCancel", <<>>, FALSE))
       ELSE IF k.name = "return" THEN
            IF Trim(input) # <<>>
            THEN Calls(DialogCall("onConfirm", Trim(input),
                                  hasClaudeProjects /\ renameClaudeProjects))
            ELSE Ignored
       ELSE IF k.name = "tab" /\ hasClaudeProjects
            THEN /\ renameClaudeProjects' = ~renameClaudeProjects
                 /\ UNCHANGED <<input, inputCursor, phase, pending, calls>>
       ELSE EditInput(k)
    /\ DialogFrame(k)

\* The useInput handler of RenameConfirm.
KeyRenameConfirm(k) ==
    /\ component = "RenameConfirm" /\ phase = "name"
    /\ k \in DialogKeys
    /\ IF k.name = "escape" THEN Calls(DialogCall("onCancel", <<>>, FALSE))
       ELSE IF k.name = "return" THEN
            IF Trim(input) # <<>> /\ Trim(input) # dialogEntry
            THEN Calls(DialogCall("onConfirm", Trim(input),
                                  hasClaudeProjects /\ renameClaudeProjects))
            ELSE Ignored
       ELSE IF k.name = "tab" /\ hasClaudeProjects
            THEN /\ renameClaudeProjects' = ~renameClaudeProjects
                 /\ UNCHANGED <<input, inputCursor, phase, pending, calls>>
       ELSE EditInput(k)
    /\ DialogFrame(k)

\* A second phase that passes the flag as true whatever the answer: a faulty
\* variant, ruled out by C12.
ClaudeConfirmAlwaysYes(k) ==
    IF k.name = "escape" \/ k.input = "n" \/ k.input = "N"
            \/ k.name = "return" \/ k.input = "y" \/ k.input = "Y"
        THEN Calls(DialogCall("onConfirm", pending, TRUE))
    ELSE Ignored

\* The second phase of the two-phase dialogs: the yes/no question.
ClaudeConfirm(k) ==
    IF k.name = "escape" \/ k.input = "n" \/ k.input = "N"
        THEN Calls(DialogCall("onConfirm", pending, FALSE))
    ELSE IF k.name = "return" \/ k.input = "y" \/ k.input = "Y"
        THEN Calls(DialogCall("onConfirm", pending, TRUE))
    ELSE Ignored

\* The first phase accepted value: the question is asked if the entry has a
\* projects folder, else the dialog confirms at once.
Accept(value) ==
    IF hasClaudeProjects
    THEN /\ pending' = value
         /\ phase' = "claude-confirm"
         /\ UNCHANGED <<input, inputCursor, renameClaudeProjects, calls>>
    ELSE Calls(DialogCall("onConfirm", value, FALSE))

\* The useInput handler of the two-phase RenameConfirm.
KeyRenameTwoPhase(k) ==
    /\ component = "RenameTwoPhase" /\ phase \in {"name", "claude-confirm"}
    /\ k \in DialogKeys
    /\ IF phase = "name" THEN
            IF k.name = "escape" THEN Calls(DialogCall("onCancel", <<>>, FALSE))
            ELSE IF k.name = "return" THEN
                IF Trim(input) # <<>> /\ Trim(input) # dialogEntry
                THEN Accept(Trim(input))
                ELSE Ignored
            ELSE EditInput(k)
       ELSE ClaudeConfirm(k)
    /\ DialogFrame(k)

\* The useInput handler of the two-phase PromoteConfirm.
KeyPromoteTwoPhase(k) ==
    /\ component = "PromoteTwoPhase" /\ phase \in {"path", "claude-confirm"}
    /\ k \in DialogKeys
    /\ IF phase = "path" THEN
            IF k.name = "escape" THEN Calls(DialogCall("onCancel", <<>>, FALSE))
            ELSE IF k.name = "return" THEN
                IF Trim(input) # <<>> THEN Accept(Trim(input)) ELSE Ignored
            ELSE EditInput(k)
       ELSE ClaudeConfirm(k)
    /\ DialogFrame(k)


\* ------------------------------------------------------------------ hooks

CallbackHooks == {"after_create", "after_clone", "after_worktree", "after_select", "before_delete"}

CallbackResult(success, code, out, err) ==
    [success |-> success, exitCode |-> code, stdout |-> out, stderr |-> err]

NoCallbackResult == CallbackResult(TRUE, 0, "", "")

\* What a hook process may write to its standard output.
HookStdout == {"", "ok"}

\* What a hook process may write to its standard error.
HookStderr == {"", "Abort!"}

\* The codes a hook process may close with; null stands for a killed process.
CloseCodes == {"0", "1", "2", "null"}

CodeNumber(code) == IF code = "0" THEN 0 ELSE IF code = "1" THEN 1 ELSE IF code = "2" THEN 2 ELSE 1

\* The values of config.callbacks?.[hook] that stand for no command: the key
\* or the callbacks table is absent ("none"), or the value is undefined, null
\* or the empty string.
NoCommand == {"none", "undefined", "null", ""}

\* The commands configured, each with its text: an inline script, files that
\* exist ("/h", "~/h") and paths with no file behind them.
CommandText ==
    [c \in {"script", "/h", "/m", "~/h", "~/m", "./m", "~m"} |->
        CASE c = "script" -> <<"l", "s">>
          [] c = "/h" -> <<"/", "h">>
          [] c = "/m" -> <<"/", "m">>
          [] c = "~/h" -> <<"~", "/", "h">>
          [] c = "~/m" -> <<"~", "/", "m">>
          [] c = "./m" -> <<".", "/", "m">>
          [] c = "~m" -> <<"~", "m">>]

\* What may be configured for a hook.
HookCommands == NoCommand \cup DOMAIN CommandText

\* os.homedir()
Home == <<"/", "u">>

\* The executable files there are.
ScriptFiles == {<<"/", "h">>, <<"/", "u", "/", "h">>}

\* s.startsWith(prefix)
StartsWith(s, prefix) == Len(s) >= Len(prefix) /\ SubSeq(s, 1, Len(prefix)) = prefix

\* expandCallbackPath and expandPath: ~/rest becomes path.join(os.homedir(), rest)
ExpandPath(p) ==
    IF StartsWith(p, <<"~", "/">>) THEN Home \o <<"/">> \o SliceFrom(p, 2) ELSE p

\* isFilePath: the script starts with /, ~ or ./
IsFilePath(script) ==
    \/ StartsWith(script, <<"/">>)
    \/ StartsWith(script, <<"~">>)
    \/ StartsWith(script, <<".", "/">>)

\* The command of hook h is a file path and fs.existsSync(expandedPath) is false.
ScriptNotFound(h) ==
    LET script == ExpandPath(CommandText[config[h]])
    IN  IsFilePath(script) /\ ExpandPath(script) \notin ScriptFiles

\* hasCallback(config, hook): !!config.callbacks?.[hook]
HasCallback(h) == config[h] \notin NoCommand

\* executeCallback returned r for hook h; the caller goes on at step next.
CallbackReturns(h, r, next) ==
    /\ hookResult' = r
    /\ hookRuns' = Append(hookRuns, [hook |-> h, result |-> r])
    /\ hook' = "none"
    /\ cont' = "none"
    /\ pc' = next

\* executeCallback that starts a process whatever is configured: a faulty
\* variant, ruled out by C20.
ExecuteCallbackAlwaysRuns(h, next) ==
    /\ hook' = h
    /\ cont' = next
    /\ pc' = "hook"
    /\ UNCHANGED <<hookResult, hookRuns>>

\* executeCallback without the test that the file exists: a faulty variant,
\* ruled out by C22.
ExecuteCallbackNoExistsCheck(h, next) ==
    IF ~HasCallback(h) THEN CallbackReturns(h, CallbackResult(TRUE, 0, "", ""), next)
    ELSE /\ hook' = h
         /\ cont' = next
         /\ pc' = "hook"
         /\ UNCHANGED <<hookResult, hookRuns>>

\* executeCallback up to its spawn: no command configured returns success at
\* once; a command that is a file path (isFilePath) with no file behind it
\* returns 127; anything else starts a process.
ExecuteCallback(h, next) ==
    IF ~HasCallback(h) THEN CallbackReturns(h, CallbackResult(TRUE, 0, "", ""), next)
    ELSE IF ScriptNotFound(h)
    THEN CallbackReturns(h, CallbackResult(FALSE, 127, "", "Callback script not found"), next)
    ELSE /\ hook' = h
         /\ cont' = next
         /\ pc' = "hook"
         /\ UNCHANGED <<hookResult, hookRuns>>

\* child.on("close"): the process ended with code and wrote err to stderr.
HookClose(code, out, err) ==
    /\ pc = "hook"
    /\ CallbackReturns(hook, CallbackResult(code = "0", CodeNumber(code), out, err), cont)
    /\ UNCHANGED <<harnessVars, uiVars, config, fs, touched, stdout, stderr, exited, exitCode>>

\* child.on("error"): the process could not be started.
HookError ==
    /\ pc = "hook"
    /\ \E out \in HookStdout :
          CallbackReturns(hook, CallbackResult(FALSE, 1, out, "spawn error"), cont)
    /\ UNCHANGED <<harnessVars, uiVars, config, fs, touched, stdout, stderr, exited, exitCode>>

\* ------------------------------------------------------------------ caller

\* process.exit(code), or the end of main with code 0
Exit(code) ==
    /\ pc' = "done"
    /\ exited' = TRUE
    /\ exitCode' = code

\* The component state is gone once the Selector is unmounted.
Unmounted ==
    /\ query' = <<>>
    /\ selectedIndex' = 0
    /\ cursorPos' = 0
    /\ lastKey' = NoKey
    /\ fired' = <<>>
    /\ emitted' = <<>>
    /\ dropped' = FALSE
    /\ UNCHANGED <<entries, mode, deleteTarget, archiveTarget, promoteTarget, selected,
                   input, inputCursor, mounted, result, typed>>

\* handleSelectorResult, up to its first await; main calls it once the promise
\* of runSelector is resolved.
HandleSelectorResult ==
    /\ pc = "selector" /\ result # NoResult
    /\ Unmounted
    /\ CASE result.action = "select" ->
                /\ touched' = touched \cup {result.entry}
                /\ ExecuteCallback("after_select", "print")
                /\ UNCHANGED <<fs, stdout, stderr, exited, exitCode>>
         [] result.action = "create" ->
                IF result.arg \in fs
                THEN /\ stderr' = Append(stderr, <<"Directory already exists", result.arg>>)
                     /\ Exit(1)
                     /\ UNCHANGED <<hook, cont, hookResult, hookRuns, fs, touched, stdout>>
                ELSE /\ fs' = fs \cup {result.arg}
                     /\ IF actions = <<>>
                        \* no init_actions are configured: runInitActions returns at once
                        THEN ExecuteCallback("after_create", "print")
                        ELSE /\ pc' = "initActions"
                             /\ UNCHANGED <<hook, cont, hookResult, hookRuns>>
                     /\ UNCHANGED <<touched, stdout, stderr, exited, exitCode>>
         [] result.action = "delete" ->
                /\ IF ~HasCallback("before_delete")
                   THEN pc' = "remove" /\ UNCHANGED <<hook, cont, hookResult, hookRuns>>
                   ELSE ExecuteCallback("before_delete", "gate")
                /\ UNCHANGED <<fs, touched, stdout, stderr, exited, exitCode>>
         [] OTHER ->
                /\ Exit(0)
                /\ UNCHANGED <<hook, cont, hookResult, hookRuns, fs, touched, stdout, stderr>>
    \* runInitActions renders InitActions when init_actions are configured
    /\ IF result.action = "create" /\ result.arg \notin fs /\ actions # <<>>
       THEN /\ component' = "InitActions"
            /\ phase' = "actions"
            /\ selectedKeys' = <<>>
            /\ cursorIndex' = 0
            /\ calls' = <<>>
       ELSE UNCHANGED <<component, phase, selectedKeys, cursorIndex, calls>>
    /\ UNCHANGED <<config, dialogEntry, hasClaudeProjects, pending, renameClaudeProjects,
                   actions, initRuns, call, ret>>

\* A selected init action that runs or has run: its key and "running", "done"
\* or "failed".
InitRun(key, state) == [key |-> key, state |-> state]

\* The onConfirm callback of runInitActions is at the head of its loop with
\* no init action running.
BetweenInitActions ==
    /\ pc = "initActions" /\ component = "InitActions" /\ phase = "closed"
    /\ calls # <<>>
    /\ initRuns # <<>> => initRuns[Len(initRuns)].state # "running"

\* runInitActions, the loop of onConfirm: the next selected init action is
\* announced and its process started (runInitAction).
StartInitAction ==
    /\ BetweenInitActions
    /\ calls[1].fn = "onConfirm" /\ Len(initRuns) < Len(calls[1].value)
    /\ LET key == calls[1].value[Len(initRuns) + 1]
       IN  /\ stderr' = Append(stderr, <<"Running", key>>)
           /\ initRuns' = Append(initRuns, InitRun(key, "running"))
    /\ UNCHANGED <<component, dialogEntry, hasClaudeProjects, phase, pending,
                   renameClaudeProjects, calls, actions, selectedKeys, cursorIndex, call, ret>>
    /\ UNCHANGED <<uiVars, config, pc, hook, cont, hookResult, hookRuns, fs, touched, stdout,
                   exited, exitCode>>

\* runInitAction resolves: the process closed with code 0 (success), or closed
\* with another code or could not be started; a failure is reported and the
\* loop goes on.
InitActionEnds(success) ==
    /\ pc = "initActions"
    /\ initRuns # <<>> /\ initRuns[Len(initRuns)].state = "running"
    /\ initRuns' = [initRuns EXCEPT ![Len(initRuns)].state = IF success THEN "done" ELSE "failed"]
    /\ stderr' = IF success THEN stderr ELSE Append(stderr, <<"Failed", initRuns[Len(initRuns)].key>>)
    /\ UNCHANGED <<component, dialogEntry, hasClaudeProjects, phase, pending,
                   renameClaudeProjects, calls, actions, selectedKeys, cursorIndex, call, ret>>
    /\ UNCHANGED <<uiVars, config, pc, hook, cont, hookResult, hookRuns, fs, touched, stdout,
                   exited, exitCode>>

\* runInitActions that resolves before the selected init actions have all
\* run: a faulty variant, ruled out by C31.
AfterInitActionsEarly ==
    /\ BetweenInitActions
    /\ ExecuteCallback("after_create", "print")
    /\ UNCHANGED <<harnessVars, uiVars, config, fs, touched, stdout, stderr, exited, exitCode>>

\* runInitActions resolves, after onSkip or after the last selected init
\* action, and handleSelectorResult goes on with after_create.
AfterInitActions ==
    /\ BetweenInitActions
    /\ calls[1].fn = "onSkip" \/ Len(initRuns) = Len(calls[1].value)
    /\ ExecuteCallback("after_create", "print")
    /\ UNCHANGED <<harnessVars, uiVars, config, fs, touched, stdout, stderr, exited, exitCode>>

\* runBeforeDelete's message for a failed hook
AbortMessage(r) ==
    IF r.stderr # "" THEN <<r.stderr>> ELSE <<"Callback exited with code", r.exitCode>>

\* A caller that deletes whatever the hook returned: a faulty variant, ruled
\* out by C2.
BeforeDeleteGateIgnored ==
    /\ pc = "gate"
    /\ pc' = "remove"
    /\ UNCHANGED <<stderr, exited, exitCode>>
    /\ UNCHANGED <<harnessVars, uiVars, config, hook, cont, hookResult, hookRuns, fs, touched, stdout>>

\* runBeforeDelete after its hook returned, and the caller's check of proceed.
BeforeDeleteGate ==
    /\ pc = "gate"
    /\ IF ~hookResult.success
       THEN /\ stderr' = Append(stderr, <<"Delete aborted">> \o AbortMessage(hookResult))
            /\ Exit(1)
       ELSE /\ pc' = "remove"
            /\ UNCHANGED <<stderr, exited, exitCode>>
    /\ UNCHANGED <<harnessVars, uiVars, config, hook, cont, hookResult, hookRuns, fs, touched, stdout>>

\* deleteTryDir with its message on standard output: a faulty variant, ruled
\* out by C24.
DeleteTryDirToStdout ==
    /\ pc = "remove"
    /\ IF result.entry \notin fs
       THEN /\ stderr' = Append(stderr, <<"Directory does not exist", result.entry>>)
            /\ Exit(1)
            /\ UNCHANGED <<fs, stdout>>
       ELSE /\ fs' = fs \ {result.entry}
            /\ stdout' = Append(stdout, <<"Deleted", result.entry>>)
            /\ Exit(0)
            /\ UNCHANGED stderr
    /\ UNCHANGED <<harnessVars, uiVars, config, hook, cont, hookResult, hookRuns, touched>>

\* deleteTryDir and the message after it.
DeleteTryDir ==
    /\ pc = "remove"
    /\ IF result.entry \notin fs
       THEN /\ stderr' = Append(stderr, <<"Directory does not exist", result.entry>>)
            /\ Exit(1)
            /\ UNCHANGED fs
       ELSE /\ fs' = fs \ {result.entry}
            /\ stderr' = Append(stderr, <<"Deleted", result.entry>>)
            /\ Exit(0)
    /\ UNCHANGED <<harnessVars, uiVars, config, hook, cont, hookResult, hookRuns, touched, stdout>>

\* dirPath.replace(/'/g, "'\\''")
RECURSIVE EscapeQuotes(_)
EscapeQuotes(dirPath) ==
    IF dirPath = <<>> THEN <<>>
    ELSE (IF Head(dirPath) = "'" THEN <<"'", "\\", "'", "'">> ELSE <<Head(dirPath)>>)
            \o EscapeQuotes(Tail(dirPath))

\* generateCdCommand: `cd '${escapedPath}'`
GenerateCdCommand(dirPath) ==
    <<"c", "d", " ", "'">> \o EscapeQuotes(dirPath) \o <<"'">>

\* handleClone: cloneRepo fails, or the repository is cloned and after_clone runs.
HandleClone ==
    /\ pc = "handleClone"
    /\ \/ /\ stderr' = Append(stderr, <<"Clone failed", call.path>>)
          /\ Exit(1)
          /\ UNCHANGED <<hook, cont, hookResult, hookRuns, fs>>
       \/ /\ fs' = fs \cup {call.path}
          /\ ExecuteCallback("after_clone", "print")
          /\ UNCHANGED <<stderr, exited, exitCode>>
    /\ UNCHANGED <<harnessVars, uiVars, config, touched, stdout>>

\* handleWorktree: in a git repository a detached worktree is made, or fails to
\* be; outside one a plain directory is created; then after_create runs.
HandleWorktree ==
    /\ pc = "handleWorktree"
    /\ \/ /\ stderr' = Append(stderr, <<"Worktree failed", call.path>>)
          /\ Exit(1)
          /\ UNCHANGED <<hook, cont, hookResult, hookRuns, fs>>
       \/ /\ fs' = fs \cup {call.path}
          /\ stderr' = Append(stderr, <<"Created worktree", call.path>>)
          /\ ExecuteCallback("after_create", "print")
          /\ UNCHANGED <<exited, exitCode>>
       \/ IF call.path \in fs
          THEN /\ stderr' = Append(stderr, <<"Directory already exists", call.path>>)
               /\ Exit(1)
               /\ UNCHANGED <<hook, cont, hookResult, hookRuns, fs>>
          ELSE /\ fs' = fs \cup {call.path}
               /\ ExecuteCallback("after_create", "print")
               /\ UNCHANGED <<stderr, exited, exitCode>>
    /\ UNCHANGED <<harnessVars, uiVars, config, touched, stdout>>

\* The path the cd command names: the entry selected, the directory created,
\* the clone or the worktree.
ResultPath ==
    IF call.fn \in {"handleClone", "handleWorktree"} THEN call.path
    ELSE IF result.action = "select" THEN result.entry ELSE result.arg

\* A caller that gives up when its hook failed: a faulty variant, ruled out by
\* C21.
PrintCdUnlessHookFailed ==
    /\ pc = "print"
    /\ IF hookResult.success
       THEN stdout' = Append(stdout, GenerateCdCommand(ResultPath)) /\ Exit(0)
       ELSE UNCHANGED stdout /\ Exit(1)
    /\ UNCHANGED <<harnessVars, uiVars, config, hook, cont, hookResult, hookRuns, fs, touched, stderr>>

\* console.log(generateCdCommand(path))
PrintCd ==
    /\ pc = "print"
    /\ stdout' = Append(stdout, GenerateCdCommand(ResultPath))
    /\ Exit(0)
    /\ UNCHANGED <<harnessVars, uiVars, config, hook, cont, hookResult, hookRuns, fs, touched, stderr>>

\* ------------------------------------------------------------------ behaviour

NoCall == [fn |-> "none"]

\* No dialog is mounted on its own.
DialogIdle ==
    /\ component = "none"
    /\ dialogEntry = Null
    /\ hasClaudeProjects = FALSE
    /\ phase = "none"
    /\ pending = <<>>
    /\ renameClaudeProjects = FALSE
    /\ calls = <<>>
    /\ actions = <<>>
    /\ selectedKeys = <<>>
    /\ cursorIndex = 0
    /\ initRuns = <<>>

\* No dialog is mounted on its own and no function has been called.
HarnessIdle ==
    /\ DialogIdle
    /\ call = NoCall
    /\ ret = <<>>

\* What main does with its arguments: the interactive selector (no call), a
\* clone of a git URL, or a worktree for "try . <name>".
Commands ==
    { NoCall,
      [fn |-> "handleClone", path |-> <<"r">>],
      [fn |-> "handleWorktree", path |-> <<"w">>],
      [fn |-> "handleWorktree", path |-> <<"q">>] }

\* The selector is not running: its state and the caller's stay as they are.
SelectorIdle ==
    /\ entries = <<>>
    /\ query = <<>>
    /\ selectedIndex = 0
    /\ mode = "search"
    /\ deleteTarget = Null
    /\ archiveTarget = Null
    /\ promoteTarget = Null
    /\ cursorPos = 0
    /\ selected = "cancel"
    /\ mounted = FALSE
    /\ result = NoResult
    /\ fired = <<>>
    /\ emitted = <<>>
    /\ typed = <<>>
    /\ dropped = FALSE
    /\ fs = {}
    /\ touched = {}
    /\ stdout = <<>>
    /\ stderr = <<>>
    /\ exited = FALSE
    /\ exitCode = 0

\* No hook has been run.
HooksIdle ==
    /\ hook = "none"
    /\ cont = "none"
    /\ hookResult = NoCallbackResult
    /\ hookRuns = <<>>

Init ==
    /\ \E run \in Runs, command \in Commands :
          /\ command # NoCall => run.entries = Dirs /\ run.initialQuery = <<>>
          /\ entries = IF command = NoCall THEN run.entries ELSE <<>>
          /\ query = run.initialQuery
          /\ config = [h \in CallbackHooks |-> run.callbacks]
          /\ fs = {run.entries[i].name : i \in 1..Len(run.entries)}
          /\ call = command
          /\ mounted = (command = NoCall)
          /\ pc = IF command = NoCall THEN "selector" ELSE command.fn
    /\ selectedIndex = 0
    /\ mode = "search"
    /\ deleteTarget = Null
    /\ archiveTarget = Null
    /\ promoteTarget = Null
    /\ cursorPos = Len(query)
    /\ selected = "cancel"
    /\ input = <<>>
    /\ inputCursor = 0
    /\ result = NoResult
    /\ lastKey = NoKey
    /\ fired = <<>>
    /\ emitted = <<>>
    /\ typed = <<>>
    /\ dropped = FALSE
    /\ hook = "none"
    /\ cont = "none"
    /\ hookResult = NoCallbackResult
    /\ hookRuns = <<>>
    /\ touched = {}
    /\ stdout = <<>>
    /\ stderr = <<>>
    /\ exited = FALSE
    /\ exitCode = 0
    /\ DialogIdle
    /\ ret = <<>>

vars == <<uiVars, cliVars, harnessVars>>

Next ==
    \/ \E k \in SearchKeys, inputFirst \in BOOLEAN : KeySearch(k, inputFirst)
    \/ \E k \in ConfirmKeys : KeyDelete(k)
    \/ \E k \in ArchiveKeys : KeyArchive(k)
    \/ \E k \in PromoteKeys : KeyPromote(k)
    \/ HandleSelectorResult
    \/ HandleClone
    \/ HandleWorktree
    \/ \E code \in CloseCodes, out \in HookStdout, err \in HookStderr :
          HookClose(code, out, err)
    \/ HookError
    \/ BeforeDeleteGate
    \/ DeleteTryDir
    \/ PrintCd

Spec == Init /\ [][Next]_vars

\* The most init actions configured.
MaxActions == 3

\* An init action: its key in the configuration and its default flag.
InitAction(key, default) == [key |-> key, default |-> default]

\* The keys init actions are configured under, in the order of the
\* configuration.
ActionKeys == <<"git", "jj", "npm", "bun", "go">>

\* The init actions InitActions is mounted with: at least one, with any
\* default flags.
ActionLists ==
    UNION {{[i \in 1..n |-> InitAction(ActionKeys[i], f[i])] : f \in [1..n -> BOOLEAN]} :
              n \in 1..Min(MaxActions, Len(ActionKeys))}

\* The keys pressed in InitActions.
InitActionsKeys ==
    SpecialKeys \cup {Key(c, FALSE, "") : c \in {"j", "k", " ", "s", "a", "x"}}

\* The selected keys without the key k.
RECURSIVE Without(_, _)
Without(keys, k) ==
    IF keys = <<>> THEN <<>>
    ELSE IF Head(keys) = k THEN Without(Tail(keys), k)
    ELSE <<Head(keys)>> \o Without(Tail(keys), k)

\* The useInput handler of InitActions.
KeyInitActions(k) ==
    /\ component = "InitActions" /\ phase = "actions"
    /\ k \in InitActionsKeys
    /\ IF k.name = "down" \/ k.input = "j"
       THEN /\ cursorIndex' = Min(cursorIndex + 1, Len(actions) - 1)
            /\ UNCHANGED <<selectedKeys, calls, phase>>
       ELSE IF k.name = "up" \/ k.input = "k"
       THEN /\ cursorIndex' = Max(cursorIndex - 1, 0)
            /\ UNCHANGED <<selectedKeys, calls, phase>>
       ELSE IF k.input = " "
       THEN LET currentKey == actions[cursorIndex + 1].key
            IN  /\ selectedKeys' =
                      IF \E i \in 1..Len(selectedKeys) : selectedKeys[i] = currentKey
                      THEN Without(selectedKeys, currentKey)
                      ELSE Append(selectedKeys, currentKey)
                /\ UNCHANGED <<cursorIndex, calls, phase>>
       ELSE IF k.name = "return"
       THEN /\ calls' = Append(calls, DialogCall("onConfirm", selectedKeys, FALSE))
            /\ phase' = "closed"
            /\ UNCHANGED <<selectedKeys, cursorIndex>>
       ELSE IF k.name = "escape" \/ k.input = "s"
       THEN /\ calls' = Append(calls, DialogCall("onSkip", <<>>, FALSE))
            /\ phase' = "closed"
            /\ UNCHANGED <<selectedKeys, cursorIndex>>
       ELSE IF k.input = "a"
       THEN /\ selectedKeys' =
                  IF Len(selectedKeys) = Len(actions) THEN <<>>
                  ELSE [i \in 1..Len(actions) |-> actions[i].key]
            /\ UNCHANGED <<cursorIndex, calls, phase>>
       ELSE UNCHANGED <<selectedKeys, cursorIndex, calls, phase>>
    /\ lastKey' = k
    /\ UNCHANGED <<component, dialogEntry, hasClaudeProjects, pending, renameClaudeProjects,
                   actions, initRuns, call, ret>>
    /\ UNCHANGED <<entries, query, selectedIndex, mode, deleteTarget, archiveTarget,
                   promoteTarget, cursorPos, selected, input, inputCursor, mounted, result,
                   fired, emitted, typed, dropped>>
    /\ UNCHANGED cliVars

\* A dialog component mounted on its own, for an entry with or without a
\* projects folder; or InitActions mounted with its init actions, none of them
\* selected: useState(new Set()).
DialogInit ==
    /\ \/ /\ \E c \in Components, name \in DialogEntries, has \in BOOLEAN :
                /\ component = c
                /\ dialogEntry = name
                /\ hasClaudeProjects = (has /\ c # "PromoteConfirm")
                /\ input = DialogDefault(c, name)
                /\ phase = IF c \in {"PromoteConfirm", "PromoteTwoPhase"} THEN "path" ELSE "name"
                /\ renameClaudeProjects = (c = "RenameConfirm")
          /\ actions = <<>>
       \/ /\ component = "InitActions"
          /\ actions \in ActionLists
          /\ dialogEntry = Null
          /\ hasClaudeProjects = FALSE
          /\ input = <<>>
          /\ phase = "actions"
          /\ renameClaudeProjects = FALSE
    /\ selectedKeys = <<>>
    /\ cursorIndex = 0
    /\ initRuns = <<>>
    /\ inputCursor = Len(input)
    /\ pending = <<>>
    /\ calls = <<>>
    /\ lastKey = NoKey
    /\ call = NoCall
    /\ ret = <<>>
    /\ SelectorIdle
    /\ HooksIdle
    /\ config = [h \in CallbackHooks |-> "none"]
    /\ pc = "idle"

DialogNext ==
    \/ \E k \in DialogKeys : KeyPromoteConfirm(k)
    \/ \E k \in DialogKeys : KeyRenameConfirm(k)
    \/ \E k \in DialogKeys : KeyRenameTwoPhase(k)
    \/ \E k \in DialogKeys : KeyPromoteTwoPhase(k)
    \/ \E k \in InitActionsKeys : KeyInitActions(k)

DialogSpec == DialogInit /\ [][DialogNext]_vars

\* ------------------------------------------------------------------ the
\* caller from the result of the selector on

\* The directory the create-slot names for the query a.
NewDir == CreateDirName(<<"a">>)

\* The results runSelector resolves with: each action the Selector emits, for
\* the entries listed.
SelectorResults ==
    {Result(a, Dirs[i].name, <<>>) : a \in {"select", "delete", "archive"}, i \in 1..Len(Dirs)}
    \cup {Result("promote", Dirs[1].name, GetDefaultPromoteTarget(Dirs[1].name)),
          Result("create", Null, NewDir),
          Result("cancel", Null, <<>>)}

\* The directories under the tries path when the result is handled: those
\* listed; those and the directory to create; those but one, removed since.
DirSets ==
    LET listed == {Dirs[i].name : i \in 1..Len(Dirs)}
    IN  {listed, listed \cup {NewDir}, listed \ {Dirs[1].name}}

\* The directories of the tries path, one of them with a modification time an
\* hour later than now.
DirsAhead ==
    << Entry(<<"q">>, 5, 0), Entry(<<"j">>, -1, 30), Entry(<<"a", "q">>, 30, 1) >>

\* What loadTries listed for the Selector.
Listings == {Dirs, DirsAhead}

\* config.init_actions: none, or up to MaxActions of them, the first one
\* marked default.
InitActionConfigs ==
    {<<>>} \cup {l \in ActionLists : \A i \in 1..Len(l) : l[i].default = (i = 1)}

\* main after runSelector: the Selector is unmounted and its result is about
\* to be handled, with or without hooks and init actions configured.
CallerInit ==
    /\ result \in SelectorResults
    /\ fs \in DirSets
    /\ \E c \in {"none", "script"} : config = [h \in CallbackHooks |-> c]
    /\ actions \in InitActionConfigs
    /\ entries \in Listings
    /\ query = <<>>
    /\ selectedIndex = 0
    /\ mode = "search"
    /\ deleteTarget = Null
    /\ archiveTarget = Null
    /\ promoteTarget = Null
    /\ cursorPos = 0
    /\ selected = "cancel"
    /\ input = <<>>
    /\ inputCursor = 0
    /\ mounted = FALSE
    /\ lastKey = NoKey
    /\ fired = <<>>
    /\ emitted = <<>>
    /\ typed = <<>>
    /\ dropped = FALSE
    /\ pc = "selector"
    /\ HooksIdle
    /\ touched = {}
    /\ stdout = <<>>
    /\ stderr = <<>>
    /\ exited = FALSE
    /\ exitCode = 0
    /\ component = "none"
    /\ dialogEntry = Null
    /\ hasClaudeProjects = FALSE
    /\ phase = "none"
    /\ pending = <<>>
    /\ renameClaudeProjects = FALSE
    /\ calls = <<>>
    /\ selectedKeys = <<>>
    /\ cursorIndex = 0
    /\ initRuns = <<>>
    /\ call = NoCall
    /\ ret = <<>>

CallerNext ==
    \/ HandleSelectorResult
    \/ \E k \in InitActionsKeys : KeyInitActions(k)
    \/ StartInitAction
    \/ \E success \in BOOLEAN : InitActionEnds(success)
    \/ AfterInitActions
    \/ \E code \in CloseCodes, out \in HookStdout, err \in HookStderr :
          HookClose(code, out, err)
    \/ HookError
    \/ BeforeDeleteGate
    \/ DeleteTryDir
    \/ PrintCd

CallerSpec == CallerInit /\ [][CallerNext]_vars

\* ------------------------------------------------------------------ the
\* functions of lib/tries.ts

\* A child of the tries path as readdirSync lists it: its name and whether it
\* is a directory, a file or a symbolic link.
Dirent(name, kind) == [name |-> name, kind |-> kind]

\* A tries path: whether it exists, its children, and which read fails: 0 for
\* none, i for statSync of the i-th child, one more than the number of
\* children for readdirSync.
Tree(exists, dirents, fails) == [exists |-> exists, dirents |-> dirents, fails |-> fails]

\* The loop of loadTries without the test for directories: a faulty variant,
\* ruled out by C25.
RECURSIVE LoadDirentsAnyKind(_, _, _)
LoadDirentsAnyKind(tree, i, loaded) ==
    IF i > Len(tree.dirents) THEN loaded
    ELSE LET dirent == tree.dirents[i]
         IN  IF Head(dirent.name) = "." THEN LoadDirentsAnyKind(tree, i + 1, loaded)
             ELSE IF tree.fails = i THEN loaded
             ELSE LoadDirentsAnyKind(tree, i + 1,
                      Append(loaded, [name |-> dirent.name,
                                       datePrefix |-> ParseDatePrefix(dirent.name).datePrefix,
                                       baseName |-> ParseDatePrefix(dirent.name).baseName]))

\* The loop of loadTries from the i-th child on: children that are no
\* directories and hidden ones are passed over; an error thrown by statSync is
\* caught and ends the loop with the entries gathered so far.
RECURSIVE LoadDirents(_, _, _)
LoadDirents(tree, i, loaded) ==
    IF i > Len(tree.dirents) THEN loaded
    ELSE LET dirent == tree.dirents[i]
         IN  IF dirent.kind # "directory" THEN LoadDirents(tree, i + 1, loaded)
             ELSE IF Head(dirent.name) = "." THEN LoadDirents(tree, i + 1, loaded)
             ELSE IF tree.fails = i THEN loaded
             ELSE LoadDirents(tree, i + 1,
                      Append(loaded, [name |-> dirent.name,
                                       datePrefix |-> ParseDatePrefix(dirent.name).datePrefix,
                                       baseName |-> ParseDatePrefix(dirent.name).baseName]))

\* loadTries
LoadTries(tree) ==
    IF ~tree.exists THEN <<>>
    ELSE IF tree.fails = Len(tree.dirents) + 1 THEN <<>>
    ELSE LoadDirents(tree, 1, <<>>)

\* What createTryDir and deleteTryDir leave: whether an error was thrown, the
\* directories there are afterwards and the value returned.
Outcome(threw, files, value) == [threw |-> threw, files |-> files, value |-> value]

\* createTryDir that creates over what is there: a faulty variant, ruled out by
\* C26.
CreateTryDirOverwrites(files, name) == Outcome(FALSE, files \cup {name}, name)

\* createTryDir on the directories files
CreateTryDir(files, name) ==
    IF name \in files THEN Outcome(TRUE, files, Null)
    ELSE Outcome(FALSE, files \cup {name}, name)

\* deleteTryDir on the directories files
DeleteTryDirIn(files, entryPath) ==
    IF entryPath \notin files THEN Outcome(TRUE, files, Null)
    ELSE Outcome(FALSE, files \ {entryPath}, Null)

\* ------------------------------------------------------------------ the
\* functions of lib/claude-projects.ts

\* A file of a projects folder: whether its name ends in .jsonl, whether it can
\* be read, and its lines. A line is known by what the validation and the
\* replacement see of it: "cwdOld" and "cwdNew" are session objects whose cwd
\* is the old and the new directory, "session" a session object without cwd,
\* "noField" an object with none of the expected fields, "array" a JSON array,
\* "cwdNumber" an object whose cwd is no string, "notJson" a line that does
\* not parse, "blank" an empty line.
SessionFile(jsonl, readable, lines) == [jsonl |-> jsonl, readable |-> readable, lines |-> lines]

\* A projects folder: whether it exists, and its files as readdirSync lists
\* them.
Folder(exists, files) == [exists |-> exists, files |-> files]

\* content.trim(): without the blank lines at its start and its end.
RECURSIVE TrimLines(_)
TrimLines(lines) ==
    IF lines = <<>> THEN <<>>
    ELSE IF Head(lines) = "blank" THEN TrimLines(Tail(lines))
    ELSE IF lines[Len(lines)] = "blank" THEN TrimLines(SubSeq(lines, 1, Len(lines) - 1))
    ELSE lines

\* validateSessionFile that looks at no line: a faulty variant, ruled out by
\* C27.
ValidateSessionFileAlwaysValid(file) == TRUE

\* validateSessionFile: the file can be read and each of its first five lines
\* is blank or a session object.
ValidateSessionFile(file) ==
    /\ file.readable
    /\ LET lines == TrimLines(file.lines)
       IN  \A i \in 1..Min(5, Len(lines)) :
              lines[i] \in {"blank", "cwdOld", "cwdNew", "session"}

\* content.replace(cwdPattern, ...): every cwd of the old directory becomes
\* one of the new directory.
ReplaceCwd(lines) == [i \in 1..Len(lines) |-> IF lines[i] = "cwdOld" THEN "cwdNew" ELSE lines[i]]

\* The second loop of renameClaudeProjectsFolder from the i-th file on: each
\* .jsonl file whose content the replacement changes is written; fails is the
\* index of the file whose write throws, 0 when none does.
RECURSIVE UpdateFiles(_, _, _, _)
UpdateFiles(files, i, filesModified, fails) ==
    IF i > Len(files) THEN [threw |-> FALSE, files |-> files, filesModified |-> filesModified]
    ELSE IF files[i].jsonl /\ ReplaceCwd(files[i].lines) # files[i].lines
         THEN IF fails = i
              THEN [threw |-> TRUE, files |-> files, filesModified |-> filesModified]
              ELSE UpdateFiles([files EXCEPT ![i].lines = ReplaceCwd(files[i].lines)],
                               i + 1, filesModified + 1, fails)
         ELSE UpdateFiles(files, i + 1, filesModified, fails)

\* RenameClaudeProjectsResult
RenameResult(success, error, filesModified, folderRenamed) ==
    [success |-> success, error |-> error, filesModified |-> filesModified,
     folderRenamed |-> folderRenamed]

\* renameClaudeProjectsFolder on the projects folders of the old and of the
\* new directory: what it returns, or that it threw, and the two folders
\* afterwards.
RenameClaudeProjectsFolder(old, new, fails) ==
    IF ~old.exists
    THEN [threw |-> FALSE, result |-> RenameResult(TRUE, "", 0, FALSE), old |-> old, new |-> new]
    ELSE IF new.exists
    THEN [threw |-> FALSE, result |-> RenameResult(FALSE, "already exists", 0, FALSE),
          old |-> old, new |-> new]
    ELSE IF \E i \in 1..Len(old.files) : old.files[i].jsonl /\ ~ValidateSessionFile(old.files[i])
    THEN [threw |-> FALSE, result |-> RenameResult(FALSE, "Unexpected file structure", 0, FALSE),
          old |-> old, new |-> new]
    ELSE LET updated == UpdateFiles(old.files, 1, 0, fails)
         IN  IF updated.threw
             THEN [threw |-> TRUE, result |-> Null, old |-> Folder(TRUE, updated.files), new |-> new]
             ELSE [threw |-> FALSE,
                   result |-> RenameResult(TRUE, "", updated.filesModified, TRUE),
                   old |-> Folder(FALSE, <<>>), new |-> Folder(TRUE, updated.files)]

\* ------------------------------------------------------------------ the
\* functions of the libraries called on their own

\* The most files a projects folder has.
MaxFiles == 2

\* The most children a tries path has.
MaxDirents == 2

\* The longest entry list scoreEntries is called with.
MaxEntries == 2

\* The longest name normalizeName and createDirName are called with.
MaxName == 4

\* The longest remainder behind the date candidate of a parseDatePrefix name.
MaxRest == 2

\* The longest path generateCdCommand is called with.
MaxPath == 3

\* The sequences over chars that have at most n elements.
SeqsUpTo(chars, n) == UNION {[1..len -> chars] : len \in 0..n}

EntryNames == {<<"q">>, <<"a", "q">>, <<"Q", "a">>, <<"j">>}

\* Directories modified 1 or 30 hours ago and read just now.
EntryPool == {Entry(n, h, 0) : n \in EntryNames, h \in {1, 30}}

\* The entry lists: directories of one folder, so no name twice.
EntryLists ==
    {l \in SeqsUpTo(EntryPool, MaxEntries) :
        \A i, j \in 1..Len(l) : i # j => l[i].name # l[j].name}

\* One directory with a modification time later than now.
AheadLists == {<<Entry(n, h, 0)>> : n \in {<<"q">>, <<"j">>}, h \in FutureHours}

Queries == SeqsUpTo({"q", "a", "Q", " "}, MaxQuery)

RawNames == SeqsUpTo({"a", "Q", "1", "-", " "}, MaxName)

\* The days createDirName is called on.
Dates == {Today, [year |-> 2025, month |-> 1, day |-> 31], [year |-> 2025, month |-> 12, day |-> 9]}

\* What a directory name may start with: nothing, a date, and near-dates.
DateCandidates ==
    { <<>>,
      <<"2", "0", "2", "5", "-", "1", "2", "-", "1", "2">>,
      <<"2", "0", "2", "5", "-", "1", "2", "-", "1">>,
      <<"2", "5", "-", "1", "2", "-", "1", "2">>,
      <<"2", "0", "2", "5", "1", "2", "1", "2">>,
      <<"a", "2", "0", "2", "5", "-", "1", "2", "-", "1", "2">>,
      <<"2", "0", "2", "5", "-", "a", "2", "-", "1", "2">> }

DirNames ==
    {c \o r : c \in DateCandidates, r \in SeqsUpTo({"a", "-", "2", "\n"}, MaxRest)}

\* The paths: letters, blanks, single quotes, backslashes and semicolons.
Paths == SeqsUpTo({"a", " ", "'", "\\", ";"}, MaxPath)

\* The children a tries path may have: plain and hidden names, a name with a
\* dot inside, a dated name; directories, files and links.
DirentPool ==
    {Dirent(n, k) : n \in {<<"a">>, <<".", "h">>, <<"a", ".">>,
                           <<"2", "0", "2", "5", "-", "1", "2", "-", "1", "2", "-", "a">>},
                    k \in {"directory", "file", "link"}}

\* The tries paths: absent, or with up to MaxDirents children of different
\* names and any one read failing.
Trees ==
    {Tree(FALSE, <<>>, 0)}
    \cup {Tree(TRUE, l, f) :
            l \in {x \in SeqsUpTo(DirentPool, MaxDirents) :
                     \A i, j \in 1..Len(x) : i # j => x[i].name # x[j].name},
            f \in 0..(MaxDirents + 1)}

\* The directories createTryDir and deleteTryDir find, and the names they are
\* called with.
FileSets == SUBSET {<<"a">>, <<"b">>}

FileNames == {<<"a">>, <<"b">>, <<"c">>}

\* The files of a projects folder: session files with and without the old
\* directory, an empty one, one whose sixth line does not parse, files that
\* fail the validation in each way, and files that are no .jsonl files.
FilePool ==
    {SessionFile(TRUE, TRUE, l) :
        l \in {<<>>, <<"cwdOld">>, <<"session">>, <<"session", "blank", "cwdOld">>,
               <<"session", "session", "session", "session", "session", "notJson">>,
               <<"notJson">>, <<"cwdOld", "noField">>, <<"array">>, <<"cwdNumber">>}}
    \cup {SessionFile(TRUE, FALSE, <<"cwdOld">>),
          SessionFile(FALSE, TRUE, <<"cwdOld">>), SessionFile(FALSE, TRUE, <<"notJson">>)}

\* The projects folders: absent, or with up to MaxFiles files.
Folders == {Folder(FALSE, <<>>)} \cup {Folder(TRUE, l) : l \in SeqsUpTo(FilePool, MaxFiles)}

\* The calls made: the function and its arguments.
CallInputs ==
    {[fn |-> "scoreEntries", entries |-> l, query |-> q] :
        l \in EntryLists \cup AheadLists, q \in Queries}
    \cup {[fn |-> "calculateTimeScore", hours |-> h] : h \in Hours \cup FutureHours}
    \cup {[fn |-> "normalizeName", name |-> n] : n \in RawNames}
    \cup {[fn |-> "createDirName", date |-> d, name |-> n] : d \in Dates, n \in RawNames}
    \cup {[fn |-> "parseDatePrefix", name |-> n] : n \in DirNames}
    \cup {[fn |-> "generateCdCommand", path |-> n] : n \in Paths}
    \cup {[fn |-> "renameClaudeProjectsFolder", old |-> o, new |-> n, fails |-> f] :
            o \in Folders, n \in {Folder(FALSE, <<>>), Folder(TRUE, <<>>)},
            f \in 0..MaxFiles}
    \cup {[fn |-> "loadTries", tree |-> t] : t \in {x \in Trees : x.fails <= Len(x.dirents) + 1}}
    \cup {[fn |-> "createTryDir", files |-> f, name |-> n] : f \in FileSets, n \in FileNames}
    \cup {[fn |-> "deleteTryDir", files |-> f, path |-> n] : f \in FileSets, n \in FileNames}

\* The function called has returned value.
Returns(value) ==
    /\ ret = <<>>
    /\ ret' = <<value>>
    /\ UNCHANGED <<component, dialogEntry, hasClaudeProjects, phase, pending,
                   renameClaudeProjects, calls, actions, selectedKeys, cursorIndex,
                   initRuns, call>>
    /\ UNCHANGED <<uiVars, cliVars>>

ScoreEntriesCall ==
    /\ call.fn = "scoreEntries"
    /\ Returns(ScoreEntries(call.entries, call.query))

CalculateTimeScoreCall ==
    /\ call.fn = "calculateTimeScore"
    /\ Returns(CalculateTimeScore(call.hours))

NormalizeNameCall ==
    /\ call.fn = "normalizeName"
    /\ Returns(NormalizeName(call.name))

CreateDirNameCall ==
    /\ call.fn = "createDirName"
    /\ Returns(CreateDirNameOn(call.date, call.name))

ParseDatePrefixCall ==
    /\ call.fn = "parseDatePrefix"
    /\ Returns(ParseDatePrefix(call.name))

GenerateCdCommandCall ==
    /\ call.fn = "generateCdCommand"
    /\ Returns(GenerateCdCommand(call.path))

RenameClaudeProjectsFolderCall ==
    /\ call.fn = "renameClaudeProjectsFolder"
    /\ Returns(RenameClaudeProjectsFolder(call.old, call.new, call.fails))

LoadTriesCall ==
    /\ call.fn = "loadTries"
    /\ Returns(LoadTries(call.tree))

CreateTryDirCall ==
    /\ call.fn = "createTryDir"
    /\ Returns(CreateTryDir(call.files, call.name))

DeleteTryDirCall ==
    /\ call.fn = "deleteTryDir"
    /\ Returns(DeleteTryDirIn(call.files, call.path))

CallInit ==
    /\ call \in CallInputs
    /\ ret = <<>>
    /\ component = "none"
    /\ dialogEntry = Null
    /\ hasClaudeProjects = FALSE
    /\ phase = "none"
    /\ pending = <<>>
    /\ renameClaudeProjects = FALSE
    /\ calls = <<>>
    /\ actions = <<>>
    /\ selectedKeys = <<>>
    /\ cursorIndex = 0
    /\ initRuns = <<>>
    /\ input = <<>>
    /\ inputCursor = 0
    /\ lastKey = NoKey
    /\ SelectorIdle
    /\ HooksIdle
    /\ config = [h \in CallbackHooks |-> "none"]
    /\ pc = "idle"

CallNext ==
    \/ ScoreEntriesCall
    \/ CalculateTimeScoreCall
    \/ NormalizeNameCall
    \/ CreateDirNameCall
    \/ ParseDatePrefixCall
    \/ GenerateCdCommandCall
    \/ LoadTriesCall
    \/ RenameClaudeProjectsFolderCall
    \/ CreateTryDirCall
    \/ DeleteTryDirCall

CallSpec == CallInit /\ [][CallNext]_vars

\* ------------------------------------------------------------------
\* executeCallback called on its own

\* One call of executeCallback for any hook.
CallHook ==
    /\ pc = "call"
    /\ \E h \in CallbackHooks : ExecuteCallback(h, "returned")
    /\ UNCHANGED <<harnessVars, uiVars, config, fs, touched, stdout, stderr, exited, exitCode>>

\* Any value for one hook, the other hooks all without or all with a command.
HookInit ==
    /\ \E h \in CallbackHooks, v \in HookCommands, others \in {"none", "script"} :
          config = [x \in CallbackHooks |-> IF x = h THEN v ELSE others]
    /\ pc = "call"
    /\ HooksIdle
    /\ SelectorIdle
    /\ HarnessIdle
    /\ input = <<>>
    /\ inputCursor = 0
    /\ lastKey = NoKey

HookNext ==
    \/ CallHook
    \/ \E code \in CloseCodes, out \in HookStdout, err \in HookStderr : HookClose(code, out, err)
    \/ HookError

HookSpec == HookInit /\ [][HookNext]_vars

\* ------------------------------------------------------------------ properties

Cancel == Result("cancel", Null, <<>>)

\* The query, trimmed and lower-cased, is one of the reserved words exit and q.
QueryIsExitWord ==
    LET word == ToLowerCase(Trim(query))
    IN  word = <<"e", "x", "i", "t">> \/ word = <<"q">>

\* A keystroke is being handled in search mode.
InSearch == mounted /\ mode = "search"

\* The target of the open confirm dialog.
ConfirmTarget ==
    CASE mode = "delete" -> deleteTarget
      [] mode = "archive" -> archiveTarget
      [] mode = "promote" -> promoteTarget
      [] OTHER -> Null

\* C1: in the delete dialog Enter emits Delete exactly when the text typed
\* since the dialog opened equals the target's name; when it differs, Enter
\* calls neither onConfirm nor onCancel.
C1_EnterArmsOnExactName ==
    [][ (mounted /\ mode = "delete" /\ lastKey'.name = "return")
        => IF typed = deleteTarget
           THEN /\ fired' = <<"onConfirm">>
                /\ emitted' = <<Result("delete", deleteTarget, <<>>)>>
           ELSE /\ fired' = <<>>
                /\ emitted' = <<>> ]_vars

\* The abort reason of a failed hook: its stderr, or the exit code message.
AbortReason(r) ==
    IF r.stderr = "" THEN <<"Callback exited with code", r.exitCode>> ELSE <<r.stderr>>

\* C2: on a Delete action the directory is gone only if no before_delete hook
\* is configured or the hook completed with exit code 0; once the hook has
\* exited non-zero the directory stays, and the process ends with a non-zero
\* status after reporting the hook's stderr, or 'Callback exited with code N'
\* when the stderr is empty.
C2_DeleteGatedByHook ==
    /\ (result.action = "delete" /\ result.entry \notin fs /\ HasCallback("before_delete"))
        => /\ Len(hookRuns) = 1
           /\ hookRuns[1].hook = "before_delete"
           /\ hookRuns[1].result.exitCode = 0
    /\ \A i \in 1..Len(hookRuns) :
          (hookRuns[i].hook = "before_delete" /\ hookRuns[i].result.exitCode # 0)
          => /\ result.entry \in fs
             /\ pc \in {"gate", "done"}
             /\ pc = "done"
                => /\ exited
                   /\ exitCode # 0
                   /\ stderr = << <<"Delete aborted">> \o AbortReason(hookRuns[i].result) >>

\* C2's case: a before_delete hook closed with code 2 and an empty stderr, and
\* the process has ended.
C2_Witness ==
    /\ pc = "done"
    /\ hookRuns # <<>>
    /\ hookRuns[1].hook = "before_delete"
    /\ hookRuns[1].result = CallbackResult(FALSE, 2, "", "")
    /\ stderr = << <<"Delete aborted", "Callback exited with code", 2>> >>

C4_CreateUnlessExitWord ==
    [][ (InSearch /\ lastKey'.name = "return" /\ showCreateOption
            /\ selectedIndex = createNewIndex)
        => LET expected == IF QueryIsExitWord THEN Cancel
                           ELSE Result("create", Null, CreateDirName(query))
           IN  emitted' = <<expected>> /\ result' = expected /\ ~mounted' ]_vars

\* C4's case: Enter on the create-slot ended the session with a Create.
C4_Witness ==
    /\ lastKey.name = "return"
    /\ showCreateOption /\ selectedIndex = createNewIndex /\ ~QueryIsExitWord
    /\ emitted = <<result>>
    /\ result.action = "create"

\* C4, as stated: Enter on the create-slot emits Create(createDirName(query))
\* and nothing else for every query for which the create-slot is present.
C4_CreateForEveryQuery ==
    [][ (InSearch /\ lastKey'.name = "return" /\ showCreateOption
            /\ selectedIndex = createNewIndex)
        => emitted' = <<Result("create", Null, CreateDirName(query))>> ]_vars

\* C5: Enter on a normal row, when the query trimmed and lower-cased is exit
\* or q, emits Cancel and no Select.
C5_ExitWordCancels ==
    [][ (InSearch /\ lastKey'.name = "return" /\ OnEntryRow /\ QueryIsExitWord)
        => emitted' = <<Cancel>> /\ result' = Cancel /\ ~mounted' ]_vars

\* C5's case: Enter ended the session with Cancel while the cursor was on a
\* row the exit word matches.
C5_Witness ==
    /\ lastKey.name = "return"
    /\ OnEntryRow /\ QueryIsExitWord
    /\ emitted = <<Cancel>>

\* C6: Enter on the normal row i, when the query is not a reserved exit word,
\* emits exactly one action: Select for the i-th entry of the ranked list.
C6_SelectRowAtCursor ==
    [][ (InSearch /\ lastKey'.name = "return" /\ OnEntryRow /\ ~QueryIsExitWord)
        => LET expected == Result("select", scoredEntries[selectedIndex + 1].name, <<>>)
           IN  emitted' = <<expected>> /\ result' = expected /\ ~mounted' ]_vars

\* C6's case: Enter ended the session with a Select of a row below the top
\* one.
C6_Witness ==
    /\ lastKey.name = "return"
    /\ OnEntryRow /\ selectedIndex > 0 /\ ~QueryIsExitWord
    /\ emitted = <<result>>
    /\ result.action = "select"

\* The confirm state a dedicated action key stands for.
ActionKeyState(k) ==
    IF ~k.ctrl THEN "search"
    ELSE CASE k.input = "d" -> "delete"
           [] k.input = "a" -> "archive"
           [] k.input = "o" -> "promote"
           [] k.input = "r" -> "rename"
           [] OTHER -> "search"

\* C7: in search mode a dedicated action key (delete, archive, promote,
\* rename) on a normal row enters the corresponding confirm state with that
\* row's entry as the target and emits nothing; on the create-slot or with an
\* empty list it changes nothing.
C7_ActionKeysEnterConfirm ==
    [][ (InSearch /\ ActionKeyState(lastKey') # "search")
        => /\ emitted' = <<>> /\ mounted'
           /\ IF OnEntryRow
              THEN /\ mode' = ActionKeyState(lastKey')
                   /\ ConfirmTarget' = EntryAtCursor
              ELSE UNCHANGED <<query, selectedIndex, mode, deleteTarget, archiveTarget,
                               promoteTarget>> ]_vars

\* C8: in search mode Escape or Ctrl-C emits Cancel and ends the session within
\* that keystroke, whatever the query, the cursor and the list.
C8_EscapeCancels ==
    [][ (InSearch /\ (lastKey'.name = "escape" \/ (lastKey'.ctrl /\ lastKey'.input = "c")))
        => emitted' = <<Cancel>> /\ result' = Cancel /\ ~mounted' ]_vars

\* C8's case: Ctrl-C ended the session with Cancel from a typed query with the
\* cursor off the top row.
C8_Witness ==
    /\ lastKey = Key("c", TRUE, "")
    /\ query # <<>> /\ selectedIndex # 0
    /\ emitted = <<Cancel>>
    /\ ~mounted

\* C9: in search mode, after any keystroke that changes the query, the list
\* cursor is 0.
C9_QueryChangeResetsCursor ==
    [][ (InSearch /\ query' # query) => selectedIndex' = 0 ]_vars

\* C10: cancelling a confirm dialog returns to search mode with no target and
\* without emitting anything, and a dialog entered from search mode starts from
\* its default: the Cancel button highlighted, the promote path pre-filled.
C10_CancelDiscardsEdits ==
    [][ /\ (mounted /\ mode # "search" /\ fired' = <<"onCancel">>)
            => /\ mode' = "search" /\ ConfirmTarget' = Null
               /\ emitted' = <<>> /\ result' = NoResult /\ mounted'
        /\ (InSearch /\ mode' = "delete") => selected' = "cancel"
        /\ (InSearch /\ mode' = "promote")
            => /\ input' = <<"/">> \o promoteTarget'
               /\ inputCursor' = Len(input') ]_vars

\* C10's case: a promote dialog whose path had been edited was cancelled and
\* the dialog entered again.
C10_Witness ==
    /\ mode = "promote"
    /\ dropped
    /\ lastKey = Key("o", TRUE, "")
    /\ input = <<"/">> \o promoteTarget

\* The first phase of a dialog: the name or the path is being edited.
Editing == phase \in {"name", "path"}

\* The edited value is empty after trimming or, for a rename, equal to the
\* entry's current name.
Rejected ==
    \/ Trim(input) = <<>>
    \/ component \in {"RenameConfirm", "RenameTwoPhase"} /\ Trim(input) = dialogEntry

\* C11: in PromoteConfirm and RenameConfirm Enter calls nothing and changes
\* nothing when the edited value is empty after trimming or, in RenameConfirm,
\* equal to the entry's name; in every other case it confirms with the trimmed
\* value (in the two-phase dialogs the trimmed value is the one accepted).
C11_ConfirmRejectsEmptyOrUnchanged ==
    [][ (component # "none" /\ Editing /\ lastKey'.name = "return")
        => IF Rejected
           THEN UNCHANGED <<input, inputCursor, phase, pending, renameClaudeProjects, calls>>
           ELSE \/ /\ Len(calls') = Len(calls) + 1
                   /\ calls'[Len(calls')].fn = "onConfirm"
                   /\ calls'[Len(calls')].value = Trim(input)
                \/ /\ calls' = calls
                   /\ phase' = "claude-confirm"
                   /\ pending' = Trim(input) ]_vars

\* C11's case: Enter in RenameConfirm was ignored for a value that differs from
\* the entry's name only by surrounding space.
C11_Witness ==
    /\ component = "RenameConfirm"
    /\ lastKey.name = "return"
    /\ phase = "name" /\ calls = <<>>
    /\ input # dialogEntry /\ Trim(input) = dialogEntry

\* The user's answer to the projects-folder question is yes: the last key of a
\* two-phase dialog answered the question with Enter or y, or the toggle of
\* RenameConfirm is on.
AnsweredYes ==
    IF component = "RenameConfirm" THEN renameClaudeProjects
    ELSE /\ component \in {"PromoteTwoPhase", "RenameTwoPhase"}
         /\ pending # <<>>
         /\ lastKey.name = "return" \/ lastKey.input \in {"y", "Y"}

Called(fn) == call.fn = fn /\ ret # <<>>

\* The place of the entry called name in the list scoreEntries was called with.
InputIndex(name) == CHOOSE i \in 1..Len(call.entries) : call.entries[i].name = name

\* C13: scoreEntries returns its result in non-increasing order of the combined
\* score, entries of equal combined score in their input order.
C13_SortedByCombinedScore ==
    Called("scoreEntries")
    => \A i, j \in 1..Len(ret[1]) :
          i < j => /\ ret[1][i].score >= ret[1][j].score
                   /\ ret[1][i].score = ret[1][j].score
                       => InputIndex(ret[1][i].name) < InputIndex(ret[1][j].name)

\* The query q matches name as a subsequence: its characters occur in name in
\* the same order, compared without regard to case unless q has an upper-case
\* letter.
MatchesAsSubsequence(q, name) ==
    LET folded == IF \E i \in 1..Len(q) : IsUpperChar(q[i]) THEN name
                  ELSE [i \in 1..Len(name) |-> LowerChar(name[i])]
    IN  \E at \in [1..Len(q) -> 1..Len(name)] :
           /\ \A i, j \in 1..Len(q) : i < j => at[i] < at[j]
           /\ \A i \in 1..Len(q) : folded[at[i]] = q[i]

\* C14: for a non-empty query the result of scoreEntries holds exactly the
\* entries whose name the query matches as a subsequence, each once and none
\* invented; a query that matches nothing gives the empty list.
C14_ResultIsTheMatches ==
    (Called("scoreEntries") /\ Trim(call.query) # <<>>)
    => LET res == ret[1]
           given == call.entries
       IN  /\ \A i \in 1..Len(given) :
                 (\E k \in 1..Len(res) : res[k].name = given[i].name)
                     <=> MatchesAsSubsequence(call.query, given[i].name)
           /\ \A k, l \in 1..Len(res) : k # l => res[k].name # res[l].name
           /\ \A k \in 1..Len(res) : \E i \in 1..Len(given) :
                 /\ res[k].name = given[i].name
                 /\ res[k].hours = given[i].hours
                 /\ res[k].accessed = given[i].accessed
           /\ (\A i \in 1..Len(given) : ~MatchesAsSubsequence(call.query, given[i].name))
                 => res = <<>>

\* C14's case: of two entries the query q matches one (Qa, whatever the case)
\* and not the other.
C14_Witness ==
    /\ Called("scoreEntries")
    /\ call.query = <<"q">>
    /\ Len(call.entries) = 2
    /\ call.entries[1].name = <<"j">> /\ call.entries[2].name = <<"Q", "a">>
    /\ Len(ret[1]) = 1 /\ ret[1][1].name = <<"Q", "a">>

C16_CombinedScore ==
    Called("scoreEntries")
    => \A k \in 1..Len(ret[1]) :
          LET e == ret[1][k]
          IN  /\ e.timeScore = CalculateTimeScore(e.hours)
              /\ IF Trim(call.query) = <<>> \/ e.timeScore = NaN
                 THEN e.score = e.timeScore
                 ELSE /\ 10 * e.score <= 7 * e.fuzzyScore + 3 * e.timeScore
                      /\ 7 * e.fuzzyScore + 3 * e.timeScore < 10 * (e.score + 1)

\* C16's case: a query matched an entry whose match score and time score
\* differ, so the weights show in the result.
C16_Witness ==
    /\ Called("scoreEntries")
    /\ Trim(call.query) # <<>>
    /\ \E k \in 1..Len(ret[1]) :
          /\ ret[1][k].fuzzyScore = 160 /\ ret[1][k].timeScore = 707
          /\ ret[1][k].score = 324

\* The entries of scoreEntries' call with the access time of each changed.
OtherAccessTimes ==
    [i \in 1..Len(call.entries) |->
        Entry(call.entries[i].name, call.entries[i].hours, 30 - call.entries[i].accessed)]

RECURSIVE Concat(_)
\* The concatenation of a sequence of sequences.
Concat(pieces) == IF pieces = <<>> THEN <<>> ELSE Head(pieces) \o Concat(Tail(pieces))

\* Lower-case letters and digits.
IsAlnum(c) == c \in {"a", "q", "n", "y"} \/ c \in {DigitChars[i] : i \in 1..10}

\* The name in kebab case: lower-cased, every character of [a-z0-9] kept, one
\* hyphen for each maximal run of other characters that has a kept character
\* before it and after it.
Kebab(name) ==
    LET l == [i \in 1..Len(name) |-> LowerChar(name[i])]
        keptBefore(i) == \E j \in 1..(i - 1) : IsAlnum(l[j])
        keptAfter(i) == \E j \in (i + 1)..Len(l) : IsAlnum(l[j])
        startsRun(i) == i = 1 \/ IsAlnum(l[i - 1])
    IN  Concat([i \in 1..Len(l) |->
                  IF IsAlnum(l[i]) THEN <<l[i]>>
                  ELSE IF startsRun(i) /\ keptBefore(i) /\ keptAfter(i) THEN <<"-">>
                  ELSE <<>>])

\* The value of a sequence of digits.
RECURSIVE DigitsValue(_)
DigitsValue(s) ==
    IF s = <<>> THEN 0
    ELSE 10 * DigitsValue(SubSeq(s, 1, Len(s) - 1))
            + (CHOOSE v \in 0..9 : DigitChars[v + 1] = s[Len(s)])

\* s is the day date written YYYY-MM-DD.
IsDateOf(s, date) ==
    /\ Len(s) = 10
    /\ s[5] = "-" /\ s[8] = "-"
    /\ \A i \in {1, 2, 3, 4, 6, 7, 9, 10} : IsDigit(s[i])
    /\ DigitsValue(SubSeq(s, 1, 4)) = date.year
    /\ DigitsValue(SubSeq(s, 6, 7)) = date.month
    /\ DigitsValue(SubSeq(s, 9, 10)) = date.day

\* C18: normalizeName returns the name in kebab case; createDirName returns
\* the day's date YYYY-MM-DD, followed by a hyphen and the normalized name
\* when that is not empty.
C18_DirNameIsDateAndKebab ==
    /\ Called("normalizeName") => ret[1] = Kebab(call.name)
    /\ Called("createDirName")
        => /\ Len(ret[1]) >= 10
           /\ IsDateOf(SubSeq(ret[1], 1, 10), call.date)
           /\ IF Kebab(call.name) # <<>>
              THEN SubSeq(ret[1], 11, Len(ret[1])) = <<"-">> \o Kebab(call.name)
              ELSE Len(ret[1]) = 10

\* C18's case: a name with an upper-case letter and a run of two characters
\* outside [a-z0-9], on a day whose month has one digit.
C18_Witness ==
    /\ Called("createDirName")
    /\ call.name = <<"Q", " ", "-", "a">>
    /\ call.date = [year |-> 2025, month |-> 1, day |-> 31]
    /\ ret[1] = <<"2", "0", "2", "5", "-", "0", "1", "-", "3", "1", "-", "q", "-", "a">>

\* name starts with four digits, a hyphen, two digits, a hyphen and two digits.
StartsWithDate(name) ==
    /\ Len(name) >= 10
    /\ name[5] = "-" /\ name[8] = "-"
    /\ \A i \in {1, 2, 3, 4, 6, 7, 9, 10} : IsDigit(name[i])

\* C19: parseDatePrefix returns a non-empty baseName for a non-empty name; for
\* a name that does not start with a date, no datePrefix and the name as
\* baseName; for a name that is only a date, the name as baseName.
C19_BaseNameNeverEmpty ==
    Called("parseDatePrefix")
    => /\ call.name # <<>> => ret[1].baseName # <<>>
       /\ ~StartsWithDate(call.name)
           => ret[1].datePrefix = <<>> /\ ret[1].baseName = call.name
       /\ (StartsWithDate(call.name) /\ Len(call.name) = 10)
           => ret[1].baseName = call.name

\* C19's case: a name that is only a date.
C19_Witness ==
    /\ Called("parseDatePrefix")
    /\ call.name = <<"2", "0", "2", "5", "-", "1", "2", "-", "1", "2">>
    /\ ret[1].datePrefix = call.name
    /\ ret[1].baseName = call.name

\* C20: executeCallback for a hook with no command configured (absent,
\* undefined or null) returns success, exit code 0 and empty output, and no
\* process is started for it.
C20_NoCommandIsSuccess ==
    /\ \A i \in 1..Len(hookRuns) :
          config[hookRuns[i].hook] \in {"none", "undefined", "null"}
          => hookRuns[i].result
                 = [success |-> TRUE, exitCode |-> 0, stdout |-> "", stderr |-> ""]
    /\ pc = "hook" => config[hook] \notin {"none", "undefined", "null"}

\* C20's case: executeCallback has returned for a hook configured as null
\* while the other hooks have commands.
C20_Witness ==
    /\ pc = "returned"
    /\ config["after_clone"] = "null" /\ config["after_select"] = "script"
    /\ Len(hookRuns) = 1
    /\ hookRuns[1].hook = "after_clone"
    /\ hookRuns[1].result.success /\ hookRuns[1].result.exitCode = 0

\* The path the finished run was about: the clone, the worktree, the selected
\* entry or the created directory.
RunPath ==
    CASE call.fn \in {"handleClone", "handleWorktree"} -> call.path
      [] result.action = "select" -> result.entry
      [] OTHER -> result.arg

\* The line cd 'path', for a path without quotes.
CdLine(path) == <<"c", "d", " ", "'">> \o path \o <<"'">>

\* C21: once after_select, after_create, after_clone or after_worktree has
\* returned a failure (non-zero exit, missing executable, spawn error), the run
\* goes on to print the cd command for the directory and ends with that line
\* on standard output and exit code 0.
C21_FailedHookDoesNotBlock ==
    \A i \in 1..Len(hookRuns) :
        ( /\ hookRuns[i].hook \in {"after_select", "after_create", "after_clone", "after_worktree"}
          /\ ~hookRuns[i].result.success )
        => /\ pc \in {"print", "done"}
           /\ pc = "print" => ENABLED PrintCd
           /\ pc = "done" => /\ stdout = << CdLine(RunPath) >>
                             /\ exitCode = 0

\* C21's case: the after_clone hook ended with exit code 2 and the cd command
\* for the clone was printed.
C21_Witness ==
    /\ pc = "done"
    /\ hookRuns = << [hook |-> "after_clone", result |-> CallbackResult(FALSE, 2, "", "Abort!")] >>
    /\ stdout = << <<"c", "d", " ", "'", "r", "'">> >>
    /\ exitCode = 0

\* The commands that name a file, by /, ~ or ./, where no file is.
MissingFileCommands == {"/m", "~/m", "./m", "~m"}

\* C22: executeCallback for a hook whose command is a file path with no file
\* at the home-expanded path returns a failure whose stderr says the script
\* was not found, and no process is started for it.
C22_MissingScriptNotFound ==
    /\ \A i \in 1..Len(hookRuns) :
          config[hookRuns[i].hook] \in MissingFileCommands
          => /\ ~hookRuns[i].result.success
             /\ hookRuns[i].result.stderr = "Callback script not found"
    /\ pc = "hook" => config[hook] \notin MissingFileCommands

\* C22's case: executeCallback has returned for after_create configured as
\* ~/m, a path in the home directory where no file is.
C22_Witness ==
    /\ pc = "returned"
    /\ config["after_create"] = "~/m"
    /\ hookRuns = << [hook |-> "after_create",
                      result |-> CallbackResult(FALSE, 127, "", "Callback script not found")] >>

\* A hook is started, or a directory is touched, created or deleted.
SideEffectStarts ==
    \/ fs' # fs
    \/ touched' # touched
    \/ hookRuns' # hookRuns
    \/ pc' = "hook" /\ pc # "hook"

C24_StdoutIsOneCdLine ==
    call = NoCall
    => /\ Len(stdout) <= 1
       /\ stdout # <<>>
           => \/ /\ result.action = "select"
                 /\ result.entry \in touched
                 /\ stdout[1] = CdLine(result.entry)
              \/ /\ result.action = "create"
                 /\ result.arg \in fs
                 /\ stdout[1] = CdLine(result.arg)
       /\ result.action \in {"cancel", "delete"} => stdout = <<>>

\* C24's case: a directory was created and the run ended with its cd command
\* as the only line on standard output.
C24_Witness ==
    /\ call = NoCall
    /\ pc = "done"
    /\ result.action = "create"
    /\ stdout = << CdLine(result.arg) >>
    /\ exitCode = 0

\* What a shell makes of a command line: the commands, each a sequence of
\* words. Outside quotes a blank ends a word, a semicolon ends a command and a
\* backslash takes the next character as it is; between single quotes every
\* character stands for itself, except that fish reads \' and \\ as the second
\* character. A quote left open is an error: the one command without words.
RECURSIVE ShellRead(_, _, _, _, _, _, _)
ShellRead(fish, s, quoted, word, inWord, words, commands) ==
    LET wordsDone == IF inWord THEN Append(words, word) ELSE words
        commandsDone == IF wordsDone # <<>> THEN Append(commands, wordsDone) ELSE commands
    IN  IF s = <<>> THEN (IF quoted THEN << <<>> >> ELSE commandsDone)
        ELSE IF quoted
        THEN IF Head(s) = "'"
             THEN ShellRead(fish, Tail(s), FALSE, word, TRUE, words, commands)
             ELSE IF fish /\ Head(s) = "\\" /\ Len(s) >= 2 /\ s[2] \in {"'", "\\"}
             THEN ShellRead(fish, SubSeq(s, 3, Len(s)), TRUE, Append(word, s[2]), TRUE,
                            words, commands)
             ELSE ShellRead(fish, Tail(s), TRUE, Append(word, Head(s)), TRUE, words, commands)
        ELSE IF Head(s) = "'"
             THEN ShellRead(fish, Tail(s), TRUE, word, TRUE, words, commands)
        ELSE IF Head(s) = "\\" /\ Len(s) >= 2
             THEN ShellRead(fish, SubSeq(s, 3, Len(s)), FALSE, Append(word, s[2]), TRUE,
                            words, commands)
        ELSE IF Head(s) = " "
             THEN ShellRead(fish, Tail(s), FALSE, <<>>, FALSE, wordsDone, commands)
        ELSE IF Head(s) = ";"
             THEN ShellRead(fish, Tail(s), FALSE, <<>>, FALSE, <<>>, commandsDone)
        ELSE ShellRead(fish, Tail(s), FALSE, Append(word, Head(s)), TRUE, words, commands)

\* The commands the shell runs when it evaluates line.
ShellCommands(fish, line) == ShellRead(fish, line, FALSE, <<>>, FALSE, <<>>, <<>>)

\* The one command cd with the one argument path.
CdTo(path) == << << <<"c", "d">>, path >> >>

\* C29: for every path the command of generateCdCommand is cd and one
\* single-quoted word with each single quote of the path written '\'', and
\* each shell the wrapper is generated for (bash and zsh, fish) reads it as
\* the one command cd with exactly the path as its argument.
C29_CdCommandRoundTrip ==
    Called("generateCdCommand")
    => /\ SubSeq(ret[1], 1, 4) = <<"c", "d", " ", "'">>
       /\ ret[1][Len(ret[1])] = "'"
       /\ Len(ret[1]) = 5 + Len(call.path)
                          + 3 * Cardinality({i \in 1..Len(call.path) : call.path[i] = "'"})
       /\ \A fish \in BOOLEAN : ShellCommands(fish, ret[1]) = CdTo(call.path)

\* The children of the tries path that loadTries is to return: the directories
\* whose name does not start with a dot.
Visible(tree) ==
    {i \in 1..Len(tree.dirents) :
        tree.dirents[i].kind = "directory" /\ tree.dirents[i].name[1] # "."}

\* C25: for a tries path whose reads succeed loadTries returns one entry for
\* each child that is a directory with a name not starting with a dot, and
\* nothing else; for a path that does not exist it returns the empty list.
C25_LoadTriesListsVisibleDirs ==
    Called("loadTries")
    => /\ ~call.tree.exists => ret[1] = <<>>
       /\ (call.tree.exists /\ call.tree.fails = 0)
           => /\ Len(ret[1]) = Cardinality(Visible(call.tree))
              /\ \A i \in Visible(call.tree) :
                    \E k \in 1..Len(ret[1]) : ret[1][k].name = call.tree.dirents[i].name
              /\ \A k \in 1..Len(ret[1]) :
                    \E i \in Visible(call.tree) : ret[1][k].name = call.tree.dirents[i].name

\* C25's case: of a hidden directory and a plain one only the plain one is
\* returned.
C25_Witness ==
    /\ Called("loadTries")
    /\ call.tree = Tree(TRUE, <<Dirent(<<".", "h">>, "directory"), Dirent(<<"a">>, "directory")>>, 0)
    /\ Len(ret[1]) = 1 /\ ret[1][1].name = <<"a">>

\* C26: createTryDir throws and creates nothing when its target is there
\* already, and deleteTryDir throws and deletes nothing when its target is not
\* there.
C26_TryDirErrorsChangeNothing ==
    /\ (Called("createTryDir") /\ call.name \in call.files)
        => ret[1].threw /\ ret[1].files = call.files
    /\ (Called("deleteTryDir") /\ call.path \notin call.files)
        => ret[1].threw /\ ret[1].files = call.files

\* C26's cases: createTryDir has thrown for a directory that is there and
\* left the directories alone.
C26_Witness ==
    /\ Called("createTryDir")
    /\ call.files = {<<"a">>, <<"b">>} /\ call.name = <<"a">>
    /\ ret[1].threw /\ ret[1].files = {<<"a">>, <<"b">>}

\* deleteTryDir has thrown for a directory that is not there and left the
\* others alone.
C26_WitnessDelete ==
    /\ Called("deleteTryDir")
    /\ call.files = {<<"a">>} /\ call.path = <<"c">>
    /\ ret[1].threw /\ ret[1].files = {<<"a">>}

\* C27: when renameClaudeProjectsFolder reports a failure, the two projects
\* folders are as they were: no file is modified and the folder is not renamed;
\* it reports one when the target folder exists or a .jsonl file fails the
\* validation. When the source folder does not exist it reports success with
\* no file modified and no folder renamed.
C27_FailedRenameChangesNothing ==
    (Called("renameClaudeProjectsFolder") /\ ~ret[1].threw)
    => /\ ~ret[1].result.success
           => /\ ret[1].old = call.old /\ ret[1].new = call.new
              /\ ret[1].result.filesModified = 0 /\ ~ret[1].result.folderRenamed
       /\ (call.old.exists /\ call.new.exists) => ~ret[1].result.success
       /\ (call.old.exists
            /\ \E i \in 1..Len(call.old.files) :
                  /\ call.old.files[i].jsonl
                  /\ \/ ~call.old.files[i].readable
                     \/ \E j \in 1..Len(call.old.files[i].lines) :
                           /\ j <= 5
                           /\ call.old.files[i].lines[j] \in {"notJson", "noField", "array", "cwdNumber"})
           => ~ret[1].result.success
       /\ ~call.old.exists
           => ret[1].result = RenameResult(TRUE, "", 0, FALSE)
              /\ ret[1].old = call.old /\ ret[1].new = call.new

\* C27's case: of two session files the first holds the old directory and the
\* second fails the validation; the failure is reported and the first file
\* still holds the old directory.
C27_Witness ==
    /\ Called("renameClaudeProjectsFolder")
    /\ call.old = Folder(TRUE, <<SessionFile(TRUE, TRUE, <<"cwdOld">>),
                                 SessionFile(TRUE, TRUE, <<"notJson">>)>>)
    /\ ~call.new.exists
    /\ ~ret[1].threw /\ ~ret[1].result.success
    /\ ret[1].old = call.old

\* The keys of the init actions whose default flag is set, in their order.
RECURSIVE DefaultKeys(_)
DefaultKeys(list) ==
    IF list = <<>> THEN <<>>
    ELSE (IF Head(list).default THEN <<Head(list).key>> ELSE <<>>) \o DefaultKeys(Tail(list))

\* C28: InitActions starts with exactly the actions whose default flag is set
\* selected; Enter pressed before any other key confirms with exactly their
\* keys; Escape or s skips without confirming.
C28_DefaultsPreselected ==
    /\ [](component = "InitActions" /\ lastKey = NoKey => selectedKeys = DefaultKeys(actions))
    /\ [][(component = "InitActions" /\ lastKey = NoKey /\ lastKey'.name = "return")
             => calls' = <<DialogCall("onConfirm", DefaultKeys(actions), FALSE)>>]_vars
    /\ [][(component = "InitActions" /\ phase = "actions"
             /\ (lastKey'.name = "escape" \/ lastKey'.input = "s"))
             => calls' = <<DialogCall("onSkip", <<>>, FALSE)>>]_vars

\* The part of C28 about skipping, which the component keeps: Escape or s
\* calls onSkip and never onConfirm.
C28_SkipNeverConfirms ==
    [][(component = "InitActions" /\ phase = "actions"
          /\ (lastKey'.name = "escape" \/ lastKey'.input = "s"))
          => calls' = <<DialogCall("onSkip", <<>>, FALSE)>>]_vars

\* The state C28 fails in: an action with the default flag is mounted, Enter is
\* the first key, and onConfirm is called with no key.
C28_EnterConfirmsNothing ==
    /\ component = "InitActions"
    /\ actions = <<InitAction("git", TRUE), InitAction("jj", FALSE)>>
    /\ calls = <<DialogCall("onConfirm", <<>>, FALSE)>>

\* C30: in every Search state the cursor is an integer with
\* 0 <= selectedIndex < max(1, N), N the number of selectable items for the
\* current query; also after navigation keys on an empty list without a
\* create-slot, and after an edit of the query that shrinks the list.
C30_CursorInRange ==
    InSearch => selectedIndex \in 0..(Max(1, totalItems) - 1)

\* A state C30 fails in: there are no directories and no query, a navigation
\* key has been pressed, and the cursor is NaN.
C30_CursorNaN ==
    /\ InSearch
    /\ entries = <<>> /\ query = <<>>
    /\ selectedIndex = NaN

\* A state C30 fails in: a typed j or k has changed the query and the cursor
\* is past the end of the list of the new query.
C30_CursorPastEnd ==
    /\ InSearch
    /\ selectedIndex # NaN
    /\ selectedIndex >= Max(1, totalItems)

\* A hook has been started: its process runs or executeCallback has returned.
HookStarted == hook # "none" \/ hookRuns # <<>>

\* The only executeCallback call so far was for hook h and has returned.
HookFinished(h) == hook = "none" /\ Len(hookRuns) = 1 /\ hookRuns[1].hook = h

\* createTryDir has thrown for the directory to create.
CreateFailed ==
    /\ result.action = "create"
    /\ stderr # <<>> /\ stderr[1] = <<"Directory already exists", result.arg>>

\* The init actions confirmed in InitActions, none when it was skipped or
\* never shown.
ChosenInitActions ==
    IF calls # <<>> /\ calls[1].fn = "onConfirm" THEN calls[1].value ELSE <<>>

\* The init actions run so far are the first of those chosen, in their order,
\* and only the last of them may still be running.
InitRunsInOrder ==
    /\ Len(initRuns) <= Len(ChosenInitActions)
    /\ \A i \in 1..Len(initRuns) :
          /\ initRuns[i].key = ChosenInitActions[i]
          /\ i < Len(initRuns) => initRuns[i].state # "running"

\* Every chosen init action has run to its end.
InitActionsFinished ==
    /\ component = "InitActions" => phase = "closed"
    /\ Len(initRuns) = Len(ChosenInitActions)
    /\ \A i \in 1..Len(initRuns) : initRuns[i].state # "running"

\* C31: the caller takes the steps of an action in order, each finished before
\* the next starts. Select: the directory is touched before after_select
\* starts, and the cd command is written once after_select has returned.
\* Create: the directory exists before InitActions is shown, the chosen init
\* actions run one at a time in their order and have all ended before
\* after_create starts, and the cd command is written once after_create has
\* returned. When createTryDir fails, no init action and no hook runs and no
\* cd command is written.
C31_StepsInOrder ==
    /\ result.action = "select"
        => /\ HookStarted => result.entry \in touched
           /\ stdout # <<>> => HookFinished("after_select") /\ stdout = <<CdLine(result.entry)>>
    /\ (result.action = "create" /\ ~CreateFailed)
        => /\ (component = "InitActions" \/ initRuns # <<>> \/ HookStarted) => result.arg \in fs
           /\ InitRunsInOrder
           /\ HookStarted => InitActionsFinished
           /\ stdout # <<>> => HookFinished("after_create") /\ stdout = <<CdLine(result.arg)>>
    /\ CreateFailed
        => /\ component = "none" /\ initRuns = <<>>
           /\ ~HookStarted
           /\ stdout = <<>>
           /\ exited /\ exitCode = 1

\* C31's case: two init actions were chosen, the second before the first; they
\* ran in that order, the first failing; after_create ran and the cd command
\* was written.
C31_Witness ==
    /\ result.action = "create"
    /\ ChosenInitActions = <<"jj", "git">>
    /\ initRuns = <<InitRun("jj", "failed"), InitRun("git", "done")>>
    /\ HookFinished("after_create") /\ hookRuns[1].result.exitCode = 2
    /\ stdout = <<CdLine(NewDir)>>
    /\ pc = "done"

\* C31's case of a failed creation: the directory was there already.
C31_WitnessCreateFailed ==
    /\ CreateFailed /\ pc = "done"
    /\ actions # <<>> /\ config["after_create"] = "script"

\* The caller has written or changed something: a line on standard output or
\* standard error, a directory created, removed or touched, a hook run.
CallerActed ==
    \/ stdout # <<>> \/ stderr # <<>>
    \/ touched # {}
    \/ hookRuns # <<>>
    \/ fs # {entries[i].name : i \in 1..Len(entries)}

\* C32: every action the Selector emits is handled by handleSelectorResult
\* with that action's effect: once the process has ended, a select or create
\* has written its cd command or an error, a delete has removed the directory
\* or reported why not, an archive or promote has moved the directory away or
\* reported why not, and only a cancel has done nothing.
C32_EveryActionHandled ==
    (pc = "done" /\ call = NoCall)
    => /\ result.action \in {"select", "create", "delete", "archive", "promote", "rename"}
           => CallerActed
       /\ result.action \in {"archive", "promote", "rename"}
           => result.entry \notin fs \/ stderr # <<>>

\* A state C32 fails in: Archive was confirmed for an entry, the process has
\* ended with status 0, and nothing was written, moved or run.
C32_ArchiveDropped ==
    /\ pc = "done" /\ exitCode = 0
    /\ result.action = "archive"
    /\ ~CallerActed

\* The same for Promote.
C32_PromoteDropped ==
    /\ pc = "done" /\ exitCode = 0
    /\ result.action = "promote"
    /\ ~CallerActed

\* C33: in one session at most one action takes effect: once a result has been
\* delivered to the caller it stays the result, no keystroke is handled by
\* the Selector any more, no further result is emitted, and
\* handleSelectorResult, once begun, is not begun again.
C33_OneActionPerSession ==
    [][ /\ result # NoResult
            => /\ result' = result
               /\ ~mounted /\ ~mounted'
               /\ emitted' = <<>> \/ emitted' = emitted
        /\ Len(emitted') <= 1
        /\ pc # "selector" => pc' # "selector" ]_vars

\* C33's case: Delete was confirmed and handled, the directory is gone and
\* the process has ended with the Selector unmounted.
C33_Witness ==
    /\ call = NoCall
    /\ pc = "done" /\ exitCode = 0
    /\ result.action = "delete" /\ result.entry \notin fs
    /\ ~mounted
    /\ stderr = << <<"Deleted", result.entry>> >>

\* The targets of the confirm modes other than m are null, and that of m is
\* set.
OnlyTargetOf(m) ==
    /\ (deleteTarget # Null) = (m = "delete")
    /\ (archiveTarget # Null) = (m = "archive")
    /\ (promoteTarget # Null) = (m = "promote")

\* C34: in every state of the Selector mode is search exactly when the three
\* targets are null, and in a confirm mode the target of that mode and no
\* other is set; the target is the entry that was under the cursor when the
\* mode was entered, and it is the entry of the action emitted when the
\* dialog is confirmed.
C34_ModeAndTargetAgree ==
    /\ [](OnlyTargetOf(mode))
    /\ [][ /\ (mode = "search" /\ mode' # "search")
               => /\ OnEntryRow
                  /\ ConfirmTarget' = EntryAtCursor
           /\ (mode # "search" /\ mode' # "search") => ConfirmTarget' = ConfirmTarget
           /\ (mode # "search" /\ emitted' # <<>>)
               => /\ emitted'[1].action = mode
                  /\ emitted'[1].entry = ConfirmTarget ]_vars

\* C34's case: the cursor was moved to the second row and Archive asked for;
\* the dialog is open for the entry of that row and no other target is set.
C34_Witness ==
    /\ mounted /\ mode = "archive"
    /\ selectedIndex = 1
    /\ archiveTarget = scoredEntries[2].name
    /\ deleteTarget = Null /\ promoteTarget = Null

\* C35: while a confirm dialog is open no keystroke changes the query or the
\* list cursor, and neither does the keystroke that opens it; so after a
\* cancel the Search state has the query and the list cursor it had when the
\* dialog was opened.
C35_ConfirmKeepsQueryAndCursor ==
    [][ (mounted /\ (mode # "search" \/ mode' # "search"))
        => /\ query' = query
           /\ selectedIndex' = selectedIndex ]_vars

\* C35's case: a dialog opened on the second row of the list for the query q
\* has been cancelled, and the Selector is back in Search on that row with
\* that query.
C35_Witness ==
    /\ InSearch
    /\ fired = <<"onCancel">>
    /\ query = <<"q">>
    /\ selectedIndex = 1

\* The state of the Selector and of its dialogs is left as it is.
SelectorUnchanged ==
    UNCHANGED <<entries, query, selectedIndex, mode, deleteTarget, archiveTarget,
                promoteTarget, cursorPos, selected, input, inputCursor, mounted, result>>

C36_WitnessCancel ==
    /\ lastKey = Key("n", FALSE, "")
    /\ InSearch /\ fired = <<"onCancel">>
    /\ archiveTarget = Null /\ result = NoResult

\* A keystroke reaches the line editor of PromoteConfirm or RenameConfirm (one
\* phase or two): the dialog is asking for the path or the name.
EditingDialog == component \in Components /\ phase \in {"path", "name"}

\* The text cursor of the dialogs is inside the input.
C37_CursorInBounds ==
    component \in Components => 0 <= inputCursor /\ inputCursor <= Len(input)

\* What each editing key of the dialogs does to input and text cursor, but for
\* the insertion of text.
C37_EditingKeys ==
    [][EditingDialog /\ phase' = phase =>
        LET k == lastKey'
            before == SubSeq(input, 1, inputCursor)
            after == SubSeq(input, inputCursor + 1, Len(input))
        IN  /\ k.name = "backspace" /\ inputCursor > 0 =>
                /\ input' = SubSeq(input, 1, inputCursor - 1) \o after
                /\ inputCursor' = inputCursor - 1
            /\ k.name = "backspace" /\ inputCursor = 0 =>
                input' = input /\ inputCursor' = 0
            /\ k.name = "" /\ k.ctrl /\ k.input = "a" => input' = input /\ inputCursor' = 0
            /\ k.name = "" /\ k.ctrl /\ k.input = "e" =>
                input' = input /\ inputCursor' = Len(input)
            /\ k.name = "" /\ k.ctrl /\ k.input = "k" =>
                input' = before /\ inputCursor' = inputCursor
            /\ k.name = "" /\ k.ctrl /\ k.input = "u" => input' = after /\ inputCursor' = 0
    ]_vars

\* Text put in lands at the text cursor, and the cursor is after it.
C37_InsertAtCursor ==
    [][EditingDialog /\ phase' = phase /\ IsPrintable(lastKey') /\ lastKey'.name = "" =>
        LET text == KeyText(lastKey')
        IN  /\ input' = SubSeq(input, 1, inputCursor) \o text
                            \o SubSeq(input, inputCursor + 1, Len(input))
            /\ inputCursor' = inputCursor + Len(text)
    ]_vars

\* C37: in PromoteConfirm and RenameConfirm the text cursor stays between 0 and
\* the length of the input after any sequence of editing keys; backspace
\* removes the character before the cursor, and nothing at position 0; Ctrl-A
\* and Ctrl-E move the cursor to the start and to the end; Ctrl-K deletes from
\* the cursor to the end; Ctrl-U deletes from the start to the cursor and puts
\* the cursor at 0; inserted text lands at the cursor, and the cursor is after
\* it.
C37_LineEditing == []C37_CursorInBounds /\ C37_EditingKeys /\ C37_InsertAtCursor

\* Text of two characters was pasted into a dialog: both are in the input, the
\* cursor is after the first of them only.
C37_CursorInsidePastedText ==
    /\ component \in Components
    /\ lastKey.input = PastedText
    /\ inputCursor >= 1 /\ inputCursor < Len(input)
    /\ SubSeq(input, inputCursor, inputCursor + 1) = KeyText(lastKey)

EscapeKey == Key("", FALSE, "escape")

\* Escape is pressed in the Selector, whatever it shows.
PressEscape ==
    \/ \E inputFirst \in BOOLEAN : KeySearch(EscapeKey, inputFirst)
    \/ KeyDelete(EscapeKey)
    \/ KeyArchive(EscapeKey)
    \/ KeyPromote(EscapeKey)

\* The most presses of Escape it takes to end the session.
EscapesLeft == IF ~mounted THEN 0 ELSE IF mode = "search" THEN 1 ELSE 2

\* C38: in every reachable state of the interactive session Escape can be
\* pressed, and each press brings the end nearer: in a dialog it leads back to
\* the search, in the search it ends the session with Cancel; so two presses
\* at most end the session with a terminal action, and the user is stuck in no
\* state.
C38_EscapeEndsSession ==
    /\ [](mounted => ENABLED PressEscape)
    /\ [][mounted /\ lastKey' = EscapeKey =>
            /\ EscapesLeft' < EscapesLeft
            /\ mode = "search" => ~mounted' /\ result'.action = "cancel"
            /\ mode # "search" => mounted' /\ mode' = "search"
       ]_vars

\* Escape closed a dialog and the session goes on in the search: the first of
\* the two presses.
C38_Witness ==
    /\ mounted /\ mode = "search"
    /\ lastKey = EscapeKey
    /\ fired = <<"onCancel">>

\* Escape ended the session with Cancel.
C38_WitnessEnded ==
    /\ ~mounted
    /\ lastKey = EscapeKey
    /\ result.action = "cancel"
    /\ pc = "selector"

\* Escape in a dialog mounted alone closes it with one callback: onCancel, or
\* at the question about the projects folder onConfirm without the folder.
C38_DialogEscapeCloses ==
    [][phase # "closed" /\ component \in Components /\ lastKey' = EscapeKey =>
            /\ phase' = "closed"
            /\ Len(calls') = Len(calls) + 1
            /\ LET made == calls'
               IN  made[Len(made)].fn =
                       (IF phase = "claude-confirm" THEN "onConfirm" ELSE "onCancel")
    ]_vars

\* A score between 0 and 1, in thousandths.
InUnitInterval(x) == x # NaN /\ 0 <= x /\ x <= 1000

\* C39: for every entry, query and modification time, those later than now
\* included, the timeScore, the fuzzyScore and the combined score of every
\* entry scoreEntries returns lie in [0, 1], and so does the value of
\* calculateTimeScore.
C39_ScoresInUnitInterval ==
    /\ Called("calculateTimeScore") => InUnitInterval(ret[1])
    /\ Called("scoreEntries")
        => \A k \in 1..Len(ret[1]) :
              /\ InUnitInterval(ret[1][k].timeScore)
              /\ InUnitInterval(ret[1][k].fuzzyScore)
              /\ InUnitInterval(ret[1][k].score)

\* The scores of the entries modified now or earlier, and the fuzzy score of
\* every entry, do lie in [0, 1].
C39_PastScoresInUnitInterval ==
    /\ Called("calculateTimeScore") /\ call.hours >= -1 => InUnitInterval(ret[1])
    /\ Called("scoreEntries")
        => \A k \in 1..Len(ret[1]) :
              /\ InUnitInterval(ret[1][k].fuzzyScore)
              /\ ret[1][k].hours >= -1
                    => /\ InUnitInterval(ret[1][k].timeScore)
                       /\ InUnitInterval(ret[1][k].score)

\* scoreEntries returned an entry modified two hours after now: its time score
\* and its score are NaN.
C39_ScoreIsNaN ==
    /\ Called("scoreEntries")
    /\ call.query = <<"q">>
    /\ call.entries = <<Entry(<<"q">>, -2, 0)>>
    /\ Len(ret[1]) = 1
    /\ ret[1][1].timeScore = NaN
    /\ ret[1][1].score = NaN
    /\ InUnitInterval(ret[1][1].fuzzyScore)

\* loadTries after the result has been handled: the directories listed before
\* that still exist, those touched with the time of the touch as their
\* modification and access time (utimesSync(entryPath, now, now)).
NextListing ==
    LET now == [i \in 1..Len(entries) |->
                  IF entries[i].name \in touched
                  THEN Entry(entries[i].name, 0, 0) ELSE entries[i]]
    IN  SelectSeq(now, LAMBDA e : e.name \in fs)

\* A Select for a directory that exists has been handled, with no after_select
\* hook configured.
SelectHandled ==
    /\ result.action = "select"
    /\ pc # "selector"
    /\ ~HasCallback("after_select")
    /\ result.entry \in fs

\* In the next listing the selected directory is no older than any other, and
\* scoreEntries with an empty query ranks it first.
SelectedRanksFirst ==
    LET listing == NextListing
        ranked == ScoreEntries(listing, <<>>)
    IN  /\ \A i, j \in 1..Len(listing) :
              listing[i].name = result.entry => listing[i].hours <= listing[j].hours
        /\ ranked[1].name = result.entry

\* C40: after a Select for entry e has been handled, with no hooks configured,
\* the next listing gives e a modification time no older than that of any
\* other entry, and scoreEntries with an empty query ranks e first; after a
\* Cancel every entry has the modification time it had.
C40_SelectedIsNewest ==
    /\ SelectHandled => SelectedRanksFirst
    /\ result.action = "cancel" =>
          NextListing = SelectSeq(entries, LAMBDA e : e.name \in fs)

\* The same where no directory has a modification time later than now.
C40_SelectedIsNewestOfPast ==
    /\ SelectHandled /\ entries = Dirs => SelectedRanksFirst
    /\ result.action = "cancel" =>
          NextListing = SelectSeq(entries, LAMBDA e : e.name \in fs)

\* The oldest directory was selected and touched, and is the newest of the
\* next listing, all of whose directories were modified before now.
C40_OldestSelected ==
    /\ SelectHandled /\ entries = Dirs
    /\ result.entry = <<"a", "q">>
    /\ NextListing # entries
    /\ ScoreEntries(NextListing, <<>>)[1].name = <<"a", "q">>

\* A directory was selected and touched while another has a modification time
\* an hour later than now: that one stays ahead of it in the next listing.
C40_FutureEntryStaysFirst ==
    /\ SelectHandled /\ entries = DirsAhead
    /\ result.entry = <<"a", "q">>
    /\ result.entry \in touched
    /\ ScoreEntries(NextListing, <<>>)[1].name = <<"j">>

====
